---- MODULE Spec2Model ----
(***************************************************************************)
(* Verification model of the vmclarity scan-family orchestration engine    *)
(* (families.Manager): construction of the family list (New) and the run   *)
(* loop (Manager.Run) with its per-family goroutine, result channel,       *)
(* cancellation race and background drain goroutine; and of the Azure      *)
(* provider's ensureScannerVirtualMachine step under its poll loop.        *)
(***************************************************************************)
EXTENDS Integers, Sequences, FiniteSets, TLC

\* ------------------------------------------------------------------------
\* Bounds of the model
\* ------------------------------------------------------------------------

\* At most this many families are enabled in one configuration.
MaxEnabled == 2

\* The scan results (job configs) whose scanner VMs the cloud may hold.
MaxScanResults == 2

\* The poll loop calls ensureScannerVirtualMachine at most this many times.
MaxCalls == 3

\* A tag selector of a scan scope has at most this many tags.
MaxSelectorTags == 2

\* A page of listed virtual machines has at most this many entries.
MaxVMs == 2

\* ------------------------------------------------------------------------
\* Family types and results
\* ------------------------------------------------------------------------

\* The family types, in the order in which New tests their Enabled flags.
FamilyOrder ==
    << "SBOM", "Vulnerabilities", "Secrets", "Rootkits", "Malware",
       "Misconfiguration", "Exploits" >>

FamilyTypes == { FamilyOrder[k] : k \in 1..Len(FamilyOrder) }

\* The nil interfaces.IsResults value.
NoResult == [family |-> "none"]

\* The typed result of family f. The Manager never looks inside a result, so
\* a result is identified by the family type it belongs to.
ResultOf(f) == [family |-> f]

\* Error values.
NoErr == ""
RunErr == "run failed"
AbortedErr == "aborted"
StartedNotifyErr == "family started notification failed"
FinishedNotifyErr == "family finished notification failed"
GenericErr == "at least one family failed to run"

\* A FamilyResult value as sent on the result channel.
FamilyResult(res, f, err) == [Result |-> res, FamilyType |-> f, Err |-> err]

NoFamilyResult == FamilyResult(NoResult, "none", NoErr)

\* What a family's Run may return: its typed result and no error, or no
\* result and an error.
RunOutcomes(f) ==
    { FamilyResult(ResultOf(f), f, NoErr), FamilyResult(NoResult, f, RunErr) }

\* results.New(): the empty Results Store.
NewResults == [f \in FamilyTypes |-> NoResult]

\* Results.SetResults: the store keeps the typed result under its type.
SetResults(store, res) == [store EXCEPT ![res.family] = res]

\* ------------------------------------------------------------------------
\* New: the family list of a configuration
\* ------------------------------------------------------------------------

RECURSIVE AppendEnabled(_, _, _)
AppendEnabled(order, cfg, k) ==
    IF k > Len(order) THEN << >>
    ELSE (IF order[k] \in cfg THEN << order[k] >> ELSE << >>)
             \o AppendEnabled(order, cfg, k + 1)

\* New with the Vulnerabilities block placed ahead of the SBOM block.
New_VulnerabilitiesFirst(cfg) ==
    AppendEnabled(<< "Vulnerabilities", "SBOM", "Secrets", "Rootkits",
                     "Malware", "Misconfiguration", "Exploits" >>, cfg, 1)

\* New that appends Vulnerabilities only inside the SBOM block, and Exploits
\* only when Vulnerabilities is enabled.
New_DependentsNeedProducer(cfg) ==
    AppendEnabled(FamilyOrder,
                  (cfg \ (IF "SBOM" \in cfg THEN {} ELSE {"Vulnerabilities"}))
                      \ (IF "Vulnerabilities" \in cfg THEN {} ELSE {"Exploits"}),
                  1)

\* New(config): one family per enabled flag, appended in the fixed order.
New(cfg) == AppendEnabled(FamilyOrder, cfg, 1)

\* The configurations: which families are enabled.
Configs == { c \in SUBSET FamilyTypes : Cardinality(c) <= MaxEnabled }

\* ------------------------------------------------------------------------
\* Azure provider: values of the scanner VM ensure step
\* ------------------------------------------------------------------------

\* config.ScanResultID of the job configs.
ScanResultIDs == 1..MaxScanResults

\* scannerVMNameFromJobConfig: "vmclarity-scanner-" followed by the scan
\* result id.
scannerVMNameFromJobConfig(id) == << "vmclarity-scanner", id >>

VMNames == { scannerVMNameFromJobConfig(id) : id \in ScanResultIDs }

\* Provisioning states a virtual machine is reported in.
ProvisioningStateSucceeded == "Succeeded"
ProvisioningStates == { "Creating", ProvisioningStateSucceeded, "Failed" }

\* VMCreateEstimateProvisionTime, in minutes.
VMCreateEstimateProvisionTime == 2

\* Error values of the provider: nil, provider.RetryableErrorf (with the
\* estimated wait), provider.FatalErrorf, and an untyped fmt.Errorf error.
NilError == [kind |-> "nil", after |-> 0, msg |-> ""]
RetryableErrorf(after, msg) == [kind |-> "retryable", after |-> after, msg |-> msg]
FatalErrorf(msg) == [kind |-> "fatal", after |-> 0, msg |-> msg]
Errorf(msg) == [kind |-> "error", after |-> 0, msg |-> msg]

\* The errors a request to Azure may fail with.
AzureErrors == { "NotFound", "Forbidden", "InternalServerError" }

\* handleAzureRequestError: tells whether the request failed with not found
\* and classifies the error; what is not control flow is fatal.
handleAzureRequestError(err, action) ==
    [notFound |-> err = "NotFound", err |-> FatalErrorf(action)]

\* armcompute.VirtualMachine values: the zero value and a VM as Get returns it.
EmptyVirtualMachine == [name |-> "", state |-> ""]
VirtualMachine(name, state) == [name |-> name, state |-> state]

\* ------------------------------------------------------------------------
\* State
\* ------------------------------------------------------------------------
VARIABLES
    config,                 \* the enabled families (Config.*.Enabled)
    families,               \* m.families
    i,                      \* index of the loop's current family
    pc,                     \* position of Manager.Run
    cancelled,              \* ctx.Done() is closed
    errors,                 \* the errors slice
    oneOrMoreFamilyFailed,  \* the flag of the same name
    familyResults,          \* the Results Store of this run
    task,                   \* per family: state of the goroutine running Run
    taskRet,                \* per family: the FamilyResult its goroutine sends
    chan,                   \* per family: state of its result channel
    drain,                  \* per family: state of the drain goroutine
    runInput,               \* per family: the store as it was when Run was invoked
    log,                    \* history of notifier calls and run-loop events
    cancelledDuring         \* history: the family whose Run was executing when
                            \* the context was cancelled ("none" if there was none)

\* State of the Azure scanner VM ensure step.
VARIABLES
    jobConfig,              \* config.ScanResultID of the job being ensured
    vms,                    \* Azure: per VM name, "absent" or its provisioning state
    vmPc,                   \* position of ensureScannerVirtualMachine
    calls,                  \* number of calls of ensureScannerVirtualMachine so far
    azLog                   \* history of the requests and returns of the calls

managerVars ==
    << config, families, i, pc, cancelled, errors, oneOrMoreFamilyFailed,
       familyResults, task, taskRet, chan, drain, runInput, log,
       cancelledDuring >>

ensureVars == << jobConfig, vms, vmPc, calls, azLog >>

\* State of the target discovery (tag filtering).
VARIABLES
    vmList,                 \* the page of virtual machines listed by Azure
    scanScope,              \* the AzureScanScope: the two tag selectors
    discovered,             \* whether the page has been processed
    targets                 \* the targets returned for the page

tagVars == << vmList, scanScope, discovered, targets >>

\* State of the target scan pipelines (RunTargetScan, RemoveTargetScan). The
\* scanner VMs of Azure are the variable vms above.
VARIABLES
    pollers,                \* the poll loops that invoke the pipeline
    targetInfo,             \* config.TargetInfo of the job
    sameRegion,             \* the target VM is in the scanner's location
    azRes,                  \* Azure: state of the job's snapshot, disk, ...
    dataDisks,              \* Azure: the DataDisks of the job's scanner VM
    diskState,              \* Azure: the DiskState of the job's target disk
    spc,                    \* per poll loop: position in the pipeline
    vmSeen,                 \* per poll loop: DataDisks of the scannerVM value it holds
    reqs,                   \* per poll loop: the requests of its current call
    scanRet                 \* per poll loop: what its last call returned

scanVars ==
    << pollers, targetInfo, sameRegion, azRes, dataDisks, diskState, spc, vmSeen,
       reqs, scanRet >>

\* History of the poll loop of RemoveTargetScan.
VARIABLES
    callInfo                \* per poll loop, of its current call: whether all
                            \* resources were gone when it began, and whether
                            \* an earlier call had returned success

removeVars == << callInfo >>

\* State of the scan results table and of the calls of its handler.
VARIABLES
    store,                  \* the rows of the table: per row, its TargetScanResult
    dbCallers,              \* the requests being served: the callers of the handler
    clients,                \* the clients: "all", or "proper" for those that send
                            \* well-formed requests only
    dbPc,                   \* per caller: position in the handler function
    dbLocal,                \* per caller: the local variables of its call
    dbRet,                  \* per caller: what its last call returned
    dbOps                   \* number of calls begun so far

dbVars == << store, dbCallers, clients, dbPc, dbLocal, dbRet, dbOps >>

vars == << managerVars, ensureVars, tagVars, scanVars, removeVars, dbVars >>

\* What an action of one component leaves alone: the other components.
outsideManager == << ensureVars, tagVars, scanVars, removeVars, dbVars >>
outsideEnsure == << managerVars, tagVars, scanVars, removeVars, dbVars >>
outsideTags == << managerVars, ensureVars, scanVars, removeVars, dbVars >>
outsideScan ==
    << managerVars, tagVars, jobConfig, vmPc, calls, azLog, removeVars, dbVars >>
outsideRemove == << managerVars, tagVars, jobConfig, vmPc, calls, azLog, dbVars >>
outsideDB == << managerVars, ensureVars, tagVars, scanVars, removeVars >>

\* A tag selector: nil, or a list of tags.
Selector(isNil, tags) == [isNil |-> isNil, tags |-> tags]

\* The poll loops, and the resources of a job besides its scanner VM.
Callers == { 1, 2 }
ResourceKinds == { "snapshot", "disk", "nic", "blob" }

\* A call that has not returned.
NoReturn == [kind |-> "none", after |-> 0, msg |-> ""]

\* Pointers: a nil *int, a nil *string, a nil pointer to an object with an
\* Id, and pointers to values. The empty string is the empty sequence.
EmptyString == << >>
Nil == [isNil |-> TRUE, v |-> 0]
NilString == [isNil |-> TRUE, v |-> EmptyString]
NilObj == [isNil |-> TRUE, Id |-> EmptyString]
PointerTo(v) == [isNil |-> FALSE, v |-> v]
Obj(id) == [isNil |-> FALSE, Id |-> id]

\* models.TargetScanResult, and the empty one returned with most errors.
TargetScanResult(id, scan, target, revision) ==
    [Id |-> id, Scan |-> scan, Target |-> target, Revision |-> revision]
EmptyTargetScanResult == TargetScanResult(NilString, NilObj, NilObj, Nil)

\* The local variables of a call: the function, its scanResult argument,
\* params.IfMatch, and the row of dbObj.
Call(op, scanResult, ifMatch, row) ==
    [op |-> op, scanResult |-> scanResult, ifMatch |-> ifMatch, row |-> row]
NoCall == Call("none", EmptyTargetScanResult, Nil, 0)

\* What a call returned: the error ("nil" for none, "panic" when the call
\* did not return but panicked) and the TargetScanResult.
DBReturn(err, body) == [err |-> err, body |-> body]
NoDBReturn == DBReturn("none", EmptyTargetScanResult)

\* The scan results table when it is not part of the behaviour.
DBIdle ==
    /\ store = << >>
    /\ dbCallers = {}
    /\ clients = "all"
    /\ dbPc = [c \in Callers |-> "idle"]
    /\ dbLocal = [c \in Callers |-> NoCall]
    /\ dbRet = [c \in Callers |-> NoDBReturn]
    /\ dbOps = 0

\* No call of RemoveTargetScan has begun.
NoCallInfo == [c \in Callers |-> [gone |-> FALSE, repeat |-> FALSE]]

\* The pipelines when they are not part of the behaviour.
ScanIdle ==
    /\ callInfo = NoCallInfo
    /\ pollers = {}
    /\ targetInfo = [isVMInfo |-> FALSE, InstanceID |-> << >>]
    /\ sameRegion = TRUE
    /\ azRes = [k \in ResourceKinds |-> "absent"]
    /\ dataDisks = {}
    /\ diskState = "Unattached"
    /\ spc = [c \in Callers |-> [step |-> "idle", phase |-> ""]]
    /\ vmSeen = [c \in Callers |-> {}]
    /\ reqs = [c \in Callers |-> << >>]
    /\ scanRet = [c \in Callers |-> NoReturn]

\* The target discovery when it is not part of the behaviour.
TagsIdle ==
    /\ vmList = << >>
    /\ scanScope = [InstanceTagSelector |-> Selector(TRUE, << >>),
                    InstanceTagExclusion |-> Selector(TRUE, << >>)]
    /\ discovered = FALSE
    /\ targets = << >>

\* The scanner VM ensure step when it is not part of the behaviour.
EnsureIdle ==
    /\ jobConfig = 1
    /\ vms = [n \in VMNames |-> "absent"]
    /\ vmPc = "idle"
    /\ calls = 0
    /\ azLog = << >>

Event(op, f, res, err, ok) ==
    [op |-> op, family |-> f, result |-> res, err |-> err, ok |-> ok]

\* The family of the current loop iteration.
family == families[i]

Init ==
    /\ config \in Configs
    /\ families = New(config)
    /\ i = 1
    /\ pc = "loop"
    /\ cancelled = FALSE
    /\ errors = << >>
    /\ oneOrMoreFamilyFailed = FALSE
    /\ familyResults = NewResults
    /\ task = [f \in FamilyTypes |-> "none"]
    /\ taskRet = [f \in FamilyTypes |-> NoFamilyResult]
    /\ chan = [f \in FamilyTypes |-> "none"]
    /\ drain = [f \in FamilyTypes |-> "none"]
    /\ runInput = [f \in FamilyTypes |-> NewResults]
    /\ log = << >>
    /\ cancelledDuring = "none"
    /\ EnsureIdle
    /\ TagsIdle
    /\ ScanIdle
    /\ DBIdle

\* ------------------------------------------------------------------------
\* Manager.Run
\* ------------------------------------------------------------------------

\* FamilyStartedFails without the continue: the error is recorded and the
\* family is launched all the same.
FamilyStartedFails_NoContinue ==
    /\ pc = "loop"
    /\ i <= Len(families)
    /\ log' = log \o
              << Event("FamilyStarted", family, NoResult, NoErr, FALSE),
                 Event("Run", family, NoResult, NoErr, TRUE) >>
    /\ errors' = Append(errors, StartedNotifyErr)
    /\ chan' = [chan EXCEPT ![family] = "open"]
    /\ task' = [task EXCEPT ![family] = "running"]
    /\ runInput' = [runInput EXCEPT ![family] = familyResults]
    /\ pc' = "select"
    /\ UNCHANGED << outsideManager, cancelledDuring, config, families, i,
                    cancelled,
                    oneOrMoreFamilyFailed, familyResults, taskRet, drain >>

\* notifier.FamilyStarted returns an error: the error is recorded and the
\* loop continues with the next family.
FamilyStartedFails ==
    /\ pc = "loop"
    /\ i <= Len(families)
    /\ log' = Append(log, Event("FamilyStarted", family, NoResult, NoErr, FALSE))
    /\ errors' = Append(errors, StartedNotifyErr)
    /\ i' = i + 1
    /\ UNCHANGED << outsideManager, cancelledDuring, config, families, pc,
                    cancelled,
                    oneOrMoreFamilyFailed, familyResults, task, taskRet, chan,
                    drain, runInput >>

\* Launch that hands the family a fresh, empty store instead of familyResults.
Launch_FreshStore ==
    /\ chan' = [chan EXCEPT ![family] = "open"]
    /\ task' = [task EXCEPT ![family] = "running"]
    /\ runInput' = [runInput EXCEPT ![family] = NewResults]

\* result := make(chan FamilyResult); go func() { family.Run(ctx, familyResults) ... }
Launch ==
    /\ chan' = [chan EXCEPT ![family] = "open"]
    /\ task' = [task EXCEPT ![family] = "running"]
    /\ runInput' = [runInput EXCEPT ![family] = familyResults]

\* notifier.FamilyStarted succeeds: the family's goroutine is launched and
\* the Manager reaches the select.
FamilyStartedOk ==
    /\ pc = "loop"
    /\ i <= Len(families)
    /\ log' = log \o
              << Event("FamilyStarted", family, NoResult, NoErr, TRUE),
                 Event("Run", family, NoResult, NoErr, TRUE) >>
    /\ Launch
    /\ pc' = "select"
    /\ UNCHANGED << outsideManager, cancelledDuring, config, families, i,
                    cancelled, errors,
                    oneOrMoreFamilyFailed, familyResults, taskRet, drain >>

\* The goroutine of family f: family.Run returns and the goroutine blocks on
\* the send of its FamilyResult (the channel is unbuffered).
FamilyRunReturns(f) ==
    /\ task[f] = "running"
    /\ \E ret \in RunOutcomes(f) :
           taskRet' = [taskRet EXCEPT ![f] = ret]
    /\ task' = [task EXCEPT ![f] = "sending"]
    /\ UNCHANGED << outsideManager, cancelledDuring, config, families, i, pc,
                    cancelled,
                    errors, oneOrMoreFamilyFailed, familyResults, chan, drain,
                    runInput, log >>

\* The select of lines 252-277 is modelled by the two actions SelectDone and
\* SelectResult, each enabled when its case is ready. A Go select blocked on
\* both channels takes the case that becomes ready first; one that finds both
\* ready when it is evaluated takes either. The position pc = "select" covers
\* the Manager from the go statement to the moment a case is taken, so both
\* are behaviours of the model: the family's goroutine may reach its send,
\* and the context may be cancelled, before the Manager evaluates the select.

\* FamilyFinished whose notification error is dropped instead of collected.
FamilyFinished_IgnoresError(res, before) ==
    \E ok \in BOOLEAN :
        /\ log' = log \o before
                      \o << Event("FamilyFinished", res.FamilyType,
                                  res.Result, res.Err, ok) >>
        /\ errors' = errors

\* notifier.FamilyFinished(ctx, res): a failure of the notification is
\* appended to errors.
FamilyFinished(res, before) ==
    \E ok \in BOOLEAN :
        /\ log' = log \o before
                      \o << Event("FamilyFinished", res.FamilyType,
                                  res.Result, res.Err, ok) >>
        /\ errors' = IF ok THEN errors ELSE Append(errors, FinishedNotifyErr)

\* SelectDone that forgets to set oneOrMoreFamilyFailed.
SelectDone_NoMark ==
    /\ pc = "select"
    /\ cancelled
    /\ drain' = [drain EXCEPT ![family] = "waiting"]
    /\ FamilyFinished(FamilyResult(NoResult, family, AbortedErr), << >>)
    /\ i' = i + 1
    /\ pc' = "loop"
    /\ UNCHANGED << outsideManager, cancelledDuring, config, families,
                    cancelled,
                    oneOrMoreFamilyFailed, familyResults, task, taskRet, chan,
                    runInput >>

\* SelectDone followed by a break out of the loop.
SelectDone_Break ==
    /\ pc = "select"
    /\ cancelled
    /\ drain' = [drain EXCEPT ![family] = "waiting"]
    /\ oneOrMoreFamilyFailed' = TRUE
    /\ FamilyFinished(FamilyResult(NoResult, family, AbortedErr), << >>)
    /\ i' = Len(families) + 1
    /\ pc' = "loop"
    /\ UNCHANGED << outsideManager, cancelledDuring, config, families,
                    cancelled,
                    familyResults, task, taskRet, chan, runInput >>

\* SelectDone that starts no drain goroutine.
SelectDone_NoDrain ==
    /\ pc = "select"
    /\ cancelled
    /\ drain' = drain
    /\ oneOrMoreFamilyFailed' = TRUE
    /\ FamilyFinished(FamilyResult(NoResult, family, AbortedErr), << >>)
    /\ i' = i + 1
    /\ pc' = "loop"
    /\ UNCHANGED << outsideManager, cancelledDuring, config, families,
                    cancelled,
                    familyResults, task, taskRet, chan, runInput >>

\* SelectDone that takes the ctx.Done() case only once the family's
\* goroutine has reached its send.
SelectDone_AwaitsFamily ==
    /\ pc = "select"
    /\ cancelled
    /\ task[family] = "sending"
    /\ drain' = [drain EXCEPT ![family] = "waiting"]
    /\ oneOrMoreFamilyFailed' = TRUE
    /\ FamilyFinished(FamilyResult(NoResult, family, AbortedErr), << >>)
    /\ i' = i + 1
    /\ pc' = "loop"
    /\ UNCHANGED << outsideManager, cancelledDuring, config, families,
                    cancelled,
                    familyResults, task, taskRet, chan, runInput >>

\* select, case <-ctx.Done(): the drain goroutine is started, the run is
\* marked failed and FamilyFinished is called with the synthetic aborted
\* error.
SelectDone ==
    /\ pc = "select"
    /\ cancelled
    /\ drain' = [drain EXCEPT ![family] = "waiting"]
    /\ oneOrMoreFamilyFailed' = TRUE
    /\ FamilyFinished(FamilyResult(NoResult, family, AbortedErr), << >>)
    /\ i' = i + 1
    /\ pc' = "loop"
    /\ UNCHANGED << outsideManager, cancelledDuring, config, families,
                    cancelled,
                    familyResults, task, taskRet, chan, runInput >>

\* HandleResult that starts over with an empty store when a family fails.
HandleResult_ClearsOnError(res) ==
    IF res.Err # NoErr
        THEN /\ oneOrMoreFamilyFailed' = TRUE
             /\ familyResults' = NewResults
        ELSE /\ oneOrMoreFamilyFailed' = oneOrMoreFamilyFailed
             /\ familyResults' = SetResults(familyResults, res.Result)

\* case r := <-result: the run is marked failed if r.Err is set, otherwise
\* the result is stored.
HandleResult(res) ==
    IF res.Err # NoErr
        THEN /\ oneOrMoreFamilyFailed' = TRUE
             /\ familyResults' = familyResults
        ELSE /\ oneOrMoreFamilyFailed' = oneOrMoreFamilyFailed
             /\ familyResults' = SetResults(familyResults, res.Result)

\* The log entries of a received result.
ReceiveEvents(res) ==
    << Event("Receive", res.FamilyType, res.Result, res.Err, TRUE) >>
        \o (IF res.Err # NoErr THEN << >>
            ELSE << Event("SetResults", res.FamilyType, res.Result, NoErr,
                          TRUE) >>)

\* A select with a default case: the Manager does not wait for the family
\* and goes on to the next one.
SelectResult_Default ==
    /\ pc = "select"
    /\ i' = i + 1
    /\ pc' = "loop"
    /\ UNCHANGED << outsideManager, cancelledDuring, config, families,
                    cancelled, errors,
                    oneOrMoreFamilyFailed, familyResults, task, taskRet, chan,
                    drain, runInput, log >>

\* SelectResult that calls FamilyFinished before it handles the result.
SelectResult_NotifyFirst ==
    /\ pc = "select"
    /\ task[family] = "sending"
    /\ chan[family] = "open"
    /\ HandleResult(taskRet[family])
    /\ \E ok \in BOOLEAN :
           /\ log' = log
                  \o << Event("FamilyFinished", family, taskRet[family].Result,
                               taskRet[family].Err, ok) >>
                  \o ReceiveEvents(taskRet[family])
           /\ errors' = IF ok THEN errors ELSE Append(errors, FinishedNotifyErr)
    /\ task' = [task EXCEPT ![family] = "done"]
    /\ taskRet' = [taskRet EXCEPT ![family] = NoFamilyResult]
    /\ chan' = [chan EXCEPT ![family] = "closed"]
    /\ i' = i + 1
    /\ pc' = "loop"
    /\ UNCHANGED << outsideManager, cancelledDuring, config, families,
                    cancelled, drain, runInput >>

\* select, case r := <-result: the Manager receives the family's result,
\* handles it, calls FamilyFinished with it and closes the channel.
SelectResult ==
    /\ pc = "select"
    /\ task[family] = "sending"
    /\ chan[family] = "open"
    /\ HandleResult(taskRet[family])
    /\ FamilyFinished(taskRet[family], ReceiveEvents(taskRet[family]))
    /\ task' = [task EXCEPT ![family] = "done"]
    /\ taskRet' = [taskRet EXCEPT ![family] = NoFamilyResult]
    /\ chan' = [chan EXCEPT ![family] = "closed"]
    /\ i' = i + 1
    /\ pc' = "loop"
    /\ UNCHANGED << outsideManager, cancelledDuring, config, families,
                    cancelled, drain,
                    runInput >>

\* A drain goroutine that stores the late result it receives.
Drain_StoresResult(f) ==
    /\ drain[f] = "waiting"
    /\ task[f] = "sending"
    /\ chan[f] = "open"
    /\ familyResults' = IF taskRet[f].Err # NoErr THEN familyResults
                        ELSE SetResults(familyResults, taskRet[f].Result)
    /\ task' = [task EXCEPT ![f] = "done"]
    /\ taskRet' = [taskRet EXCEPT ![f] = NoFamilyResult]
    /\ drain' = [drain EXCEPT ![f] = "done"]
    /\ chan' = [chan EXCEPT ![f] = "closed"]
    /\ UNCHANGED << outsideManager, cancelledDuring, config, families, i, pc,
                    cancelled,
                    errors, oneOrMoreFamilyFailed, runInput, log >>

\* The drain goroutine of an aborted family f: <-result; close(result).
Drain(f) ==
    /\ drain[f] = "waiting"
    /\ task[f] = "sending"
    /\ chan[f] = "open"
    /\ task' = [task EXCEPT ![f] = "done"]
    /\ taskRet' = [taskRet EXCEPT ![f] = NoFamilyResult]
    /\ drain' = [drain EXCEPT ![f] = "done"]
    /\ chan' = [chan EXCEPT ![f] = "closed"]
    /\ UNCHANGED << outsideManager, cancelledDuring, config, families, i, pc,
                    cancelled,
                    errors, oneOrMoreFamilyFailed, familyResults, runInput,
                    log >>

\* Return that also reports a failure when the store is still empty.
Return_ErrorWhenNoResults ==
    /\ pc = "loop"
    /\ i > Len(families)
    /\ errors' = IF oneOrMoreFamilyFailed \/ familyResults = NewResults
                     THEN Append(errors, GenericErr)
                     ELSE errors
    /\ pc' = "done"
    /\ UNCHANGED << outsideManager, cancelledDuring, config, families, i,
                    cancelled, oneOrMoreFamilyFailed, familyResults, task,
                    taskRet, chan, drain, runInput, log >>

\* After the loop: the generic error is appended if the flag is set, and
\* Run returns errors.
Return ==
    /\ pc = "loop"
    /\ i > Len(families)
    /\ errors' = IF oneOrMoreFamilyFailed THEN Append(errors, GenericErr)
                                          ELSE errors
    /\ pc' = "done"
    /\ UNCHANGED << outsideManager, cancelledDuring, config, families, i,
                    cancelled,
                    oneOrMoreFamilyFailed, familyResults, task, taskRet, chan,
                    drain, runInput, log >>

\* The caller cancels the context.
Cancel ==
    /\ ~cancelled
    /\ pc # "done"
    /\ cancelled' = TRUE
    /\ cancelledDuring' =
           IF pc = "select" /\ task[family] = "running" THEN family ELSE "none"
    /\ UNCHANGED << outsideManager, config, families, i, pc, errors,
                    oneOrMoreFamilyFailed,
                    familyResults, task, taskRet, chan, drain, runInput, log >>

Next ==
    \/ FamilyStartedFails
    \/ FamilyStartedOk
    \/ \E f \in FamilyTypes : FamilyRunReturns(f)
    \/ SelectDone
    \/ SelectResult
    \/ \E f \in FamilyTypes : Drain(f)
    \/ Return
    \/ Cancel

Spec == Init /\ [][Next]_vars

\* ------------------------------------------------------------------------
\* Properties
\* ------------------------------------------------------------------------

\* Positions of the log.
Positions == DOMAIN log

\* The positions of the events op of family f.
EventsOf(op, f) == { k \in Positions : log[k].op = op /\ log[k].family = f }

\* Position of family f in m.families.
FamilyIndex(f) == CHOOSE a \in 1..Len(families) : families[a] = f

\* f was skipped: its FamilyStarted notification failed (before position k).
SkippedBefore(f, k) ==
    \E j \in 1..(k - 1) :
        log[j].op = "FamilyStarted" /\ log[j].family = f /\ ~log[j].ok

\* The Manager received f's result on the join (before position k).
JoinedBefore(f, k) ==
    \E j \in 1..(k - 1) : log[j].op = "Receive" /\ log[j].family = f

\* f was reported aborted (before position k).
AbortedBefore(f, k) ==
    \E j \in 1..(k - 1) :
        log[j].op = "FamilyFinished" /\ log[j].family = f
            /\ log[j].err = AbortedErr

Skipped(f) == SkippedBefore(f, Len(log) + 1)
Aborted(f) == AbortedBefore(f, Len(log) + 1)
Launched(f) == EventsOf("Run", f) # {}

\* The Manager received a successful result res of f (before position k).
JoinedOkBefore(f, res, k) ==
    \E j \in 1..(k - 1) :
        log[j].op = "Receive" /\ log[j].family = f
            /\ log[j].err = NoErr /\ log[j].result = res

JoinedOk(f) ==
    \E j \in Positions :
        log[j].op = "Receive" /\ log[j].family = f /\ log[j].err = NoErr

JoinedErr(f) ==
    \E j \in Positions :
        log[j].op = "Receive" /\ log[j].family = f /\ log[j].err # NoErr

\* Number of occurrences of e in the sequence s.
Count(s, e) == Cardinality({ k \in DOMAIN s : s[k] = e })

\* The run order the specification prescribes.
PrescribedOrder ==
    << "SBOM", "Vulnerabilities", "Secrets", "Rootkits", "Malware",
       "Misconfiguration", "Exploits" >>

Rank(f) == CHOOSE k \in 1..Len(PrescribedOrder) : PrescribedOrder[k] = f

\* C1: for every configuration, only enabled families are started and run,
\* and the FamilyStarted calls (and the launches of Run) of any two families
\* follow the order SBOM, Vulnerabilities, Secrets, Rootkits, Malware,
\* Misconfiguration, Exploits.
C1_FixedRunOrder ==
    \A k \in Positions :
        log[k].op \in {"FamilyStarted", "Run"} =>
            /\ log[k].family \in config
            /\ \A j \in 1..(k - 1) :
                   log[j].op = log[k].op =>
                       Rank(log[j].family) < Rank(log[k].family)

\* Two enabled families, with a disabled one between them in the order,
\* have both been started and the run has returned.
C1_Witness ==
    /\ pc = "done"
    /\ \E f, g \in config :
          /\ Rank(f) + 1 < Rank(g)
          /\ EventsOf("FamilyStarted", f) # {}
          /\ EventsOf("FamilyStarted", g) # {}
          /\ \E h \in FamilyTypes \ config : Rank(f) < Rank(h) /\ Rank(h) < Rank(g)

\* C2: a family's Run is launched only after every family before it in the
\* run order has been joined (its result received), reported aborted, or
\* skipped; in particular Vulnerabilities only after SBOM and Exploits only
\* after Vulnerabilities, when those are enabled.
C2_JoinBeforeLaunch ==
    \A k \in Positions :
        log[k].op = "Run" =>
            /\ \A a \in 1..Len(families) :
                   a < FamilyIndex(log[k].family) =>
                       \/ JoinedBefore(families[a], k)
                       \/ AbortedBefore(families[a], k)
                       \/ SkippedBefore(families[a], k)
            /\ \A d \in {<< "SBOM", "Vulnerabilities" >>,
                         << "Vulnerabilities", "Exploits" >>} :
                   (log[k].family = d[2] /\ d[1] \in config) =>
                       \/ JoinedBefore(d[1], k)
                       \/ AbortedBefore(d[1], k)
                       \/ SkippedBefore(d[1], k)

\* Vulnerabilities has been launched after SBOM was joined.
C2_Witness ==
    \E k \in Positions :
        /\ log[k].op = "Run"
        /\ log[k].family = "Vulnerabilities"
        /\ JoinedBefore("SBOM", k)

\* C3: if the context is cancelled while family K is executing, then when
\* Run returns the store still holds the result of every family before K
\* that succeeded, holds no result for K, and the error list is non-empty.
C3_CancelDuringFamily ==
    (pc = "done" /\ cancelledDuring # "none") =>
        /\ \A f \in config :
               (FamilyIndex(f) < FamilyIndex(cancelledDuring) /\ JoinedOk(f))
                   => familyResults[f] = ResultOf(f)
        /\ familyResults[cancelledDuring] = NoResult
        /\ errors # << >>

\* C4 as claimed: when Run returns, the generic error has been appended
\* whenever a family's Run returned an error, a family was aborted, or a
\* family was skipped because its FamilyStarted notification failed.
C4_GenericErrorOnAnyFailure ==
    pc = "done" =>
        ((\E f \in config : JoinedErr(f) \/ Aborted(f) \/ Skipped(f))
            => (errors # << >> /\ errors[Len(errors)] = GenericErr))

\* C4 as amended: when Run returns, the generic error is in the list (once,
\* as its last element) exactly when some family's Run returned an error or
\* some family was aborted; a skipped family adds only its notification
\* error.
C4_GenericErrorOnRunFailure ==
    pc = "done" =>
        IF \E f \in config : JoinedErr(f) \/ Aborted(f)
            THEN /\ Count(errors, GenericErr) = 1
                 /\ errors[Len(errors)] = GenericErr
            ELSE Count(errors, GenericErr) = 0

\* Run has returned after one family was skipped and another was aborted,
\* and the generic error closes the list.
C4_Witness ==
    /\ pc = "done"
    /\ \E f, g \in config : Skipped(f) /\ Aborted(g)
    /\ errors # << >>
    /\ errors[Len(errors)] = GenericErr

C6_EveryFamilyAttempted ==
    pc = "done" =>
        \A f \in config : Cardinality(EventsOf("FamilyStarted", f)) = 1

\* Run has returned after the first family was aborted and its
\* FamilyFinished notification failed, and a later family was started.
C6_Witness ==
    /\ pc = "done"
    /\ \E f, g \in config :
          /\ FamilyIndex(f) < FamilyIndex(g)
          /\ \E k \in EventsOf("FamilyFinished", f) :
                 log[k].err = AbortedErr /\ ~log[k].ok
          /\ EventsOf("FamilyStarted", g) # {}

\* C7: once a family has been reported aborted, every later family that
\* gets a FamilyFinished gets it with the synthetic aborted error, and no
\* result is stored for it.
C7_AbortedThenAllAborted ==
    \A k \in Positions :
        (log[k].op = "FamilyFinished" /\ log[k].err = AbortedErr) =>
            \A j \in Positions :
                j > k =>
                    /\ log[j].op = "FamilyFinished" => log[j].err = AbortedErr
                    /\ log[j].op # "SetResults"

\* C8: the store holds a result for f only if the Manager received that
\* result from f's Run without error; a family reported aborted, or whose
\* Run returned an error, has no result in the store.
C8_StoredOnlyOnSuccess ==
    \A f \in FamilyTypes :
        /\ familyResults[f] # NoResult =>
               JoinedOkBefore(f, familyResults[f], Len(log) + 1)
        /\ (Aborted(f) \/ JoinedErr(f)) => familyResults[f] = NoResult

\* Run has returned, a family was aborted and its abandoned task has
\* completed and been drained.
C8_Witness ==
    /\ pc = "done"
    /\ \E f \in config :
          Aborted(f) /\ task[f] = "done" /\ drain[f] = "done"

Dependencies ==
    { << "SBOM", "Vulnerabilities" >>, << "Vulnerabilities", "Exploits" >> }

C11_StoreOnlyGrows ==
    [][\A f \in FamilyTypes :
           familyResults[f] # NoResult => familyResults'[f] = familyResults[f]]_vars

\* Run has returned; a family's result was stored, a later family's Run
\* failed, and the earlier result is still in the store.
C11_Witness ==
    /\ pc = "done"
    /\ \E f, g \in config :
          /\ FamilyIndex(f) < FamilyIndex(g)
          /\ JoinedOk(f)
          /\ JoinedErr(g)
          /\ familyResults[f] = ResultOf(f)

\* C12: when the context is cancelled and the Manager is at the select with
\* the family's result not yet received, the Manager's next step is the
\* abort: the run is marked failed, the drain is started and FamilyFinished
\* is called with a nil result and the aborted error.
C12_CancelledBeforeReceiveAborts ==
    [][(pc = "select" /\ cancelled /\ pc' = "loop") =>
           /\ oneOrMoreFamilyFailed'
           /\ drain'[family] = "waiting"
           /\ \E ok \in BOOLEAN :
                  log' = Append(log, Event("FamilyFinished", family, NoResult,
                                           AbortedErr, ok))]_vars

\* Every FamilyStarted and FamilyFinished notification of the run succeeded.
NotificationsOk ==
    \A k \in Positions :
        log[k].op \in {"FamilyStarted", "FamilyFinished"} => log[k].ok

\* C13: when Run has returned, an empty error list means that every enabled
\* family had FamilyStarted succeed, ran without error, had its result
\* stored and had FamilyFinished succeed; and any family error, abort or
\* notification failure makes the list non-empty.
C13_EmptyListIffFullSuccess ==
    pc = "done" =>
        /\ errors = << >> =>
               \A f \in config :
                   /\ \E k \in EventsOf("FamilyStarted", f) : log[k].ok
                   /\ JoinedOk(f)
                   /\ familyResults[f] = ResultOf(f)
                   /\ \E k \in EventsOf("FamilyFinished", f) :
                          log[k].ok /\ log[k].err = NoErr
        /\ ((\E f \in config : JoinedErr(f) \/ Aborted(f)) \/ ~NotificationsOk)
               => errors # << >>

\* Run has returned an empty error list for two enabled families.
C13_Witness ==
    /\ pc = "done"
    /\ errors = << >>
    /\ Cardinality(config) = MaxEnabled

\* C14: with zero enabled families Run returns an empty error list and makes
\* no FamilyStarted or FamilyFinished call.
C14_ZeroFamilies ==
    (pc = "done" /\ config = {}) =>
        /\ errors = << >>
        /\ \A k \in Positions :
               log[k].op \notin {"FamilyStarted", "FamilyFinished"}

\* Run has returned for a configuration with no family enabled.
C14_Witness ==
    /\ pc = "done"
    /\ config = {}
    /\ families = << >>

\* C15: the Manager writes the store only when no family task is executing
\* its Run (and so may be reading the store).
C15_SerializedStoreAccess ==
    [][familyResults' # familyResults =>
           \A g \in FamilyTypes : task[g] # "running"]_vars

\* C16: for a family whose Run succeeded, SetResults is logged before the
\* FamilyFinished call, and that call carries the family's actual result and
\* no error; the family is not reported aborted.
C16_StoredBeforeFinished ==
    \A f \in FamilyTypes :
        JoinedOk(f) =>
            /\ \E s \in EventsOf("SetResults", f) :
                   \E k \in EventsOf("FamilyFinished", f) :
                       /\ s < k
                       /\ log[s].result = ResultOf(f)
                       /\ log[k].result = ResultOf(f)
                       /\ log[k].err = NoErr
            /\ \A k \in EventsOf("FamilyFinished", f) :
                   /\ log[k].err # AbortedErr
                   /\ \E s \in EventsOf("SetResults", f) : s < k

\* A family succeeded, its result is in the store and FamilyFinished has
\* been called for it.
C16_Witness ==
    \E f \in config :
        /\ JoinedOk(f)
        /\ familyResults[f] = ResultOf(f)
        /\ EventsOf("FamilyFinished", f) # {}

\* The goroutines are scheduled: the Manager takes its next step when it
\* has one (a notifier call returns, a ready case of the select is taken,
\* Run returns its errors), and a drain goroutine receives when the family's
\* goroutine is at its send. Nothing is assumed of family.Run or of the
\* caller's cancellation.
ManagerStep == FamilyStartedFails \/ FamilyStartedOk \/ SelectDone \/ SelectResult \/ Return

FairSpec ==
    /\ Spec
    /\ WF_vars(ManagerStep)
    /\ \A f \in FamilyTypes : WF_vars(Drain(f))

\* C33: FamilyFinished is called at most once for a family and only after
\* that family's successful FamilyStarted; it carries either the result the
\* Manager received from the family or the aborted error of a family whose
\* result the Manager did not receive; it has been called for every started
\* family the loop has left, and before any later FamilyStarted call.
C33_FinishedOncePerStarted ==
    \A f \in FamilyTypes :
        LET started == { j \in EventsOf("FamilyStarted", f) : log[j].ok }
            finished == EventsOf("FamilyFinished", f)
        IN  /\ Cardinality(finished) <= 1
            /\ \A k \in finished :
                   /\ \E j \in started : j < k
                   /\ IF log[k].err = AbortedErr
                          THEN log[k].result = NoResult /\ ~JoinedBefore(f, Len(log) + 1)
                          ELSE \E r \in EventsOf("Receive", f) :
                                   /\ r < k
                                   /\ log[r].result = log[k].result
                                   /\ log[r].err = log[k].err
            /\ \A j \in started :
                   /\ \A k \in Positions :
                          k > j /\ log[k].op = "FamilyStarted"
                              => \E m \in finished : j < m /\ m < k
                   /\ pc = "done" \/ pc = "loop" => finished # {}
            /\ started = {} => finished = {}

\* C33 witness: the run has returned after two started families, the first
\* reported aborted and the second with its own result.
C33_Witness ==
    /\ pc = "done"
    /\ \E f, g \in config :
           /\ FamilyIndex(f) < FamilyIndex(g)
           /\ \E k \in EventsOf("FamilyFinished", f) : log[k].err = AbortedErr
           /\ \E k \in EventsOf("FamilyFinished", g) : log[k].err = NoErr

\* C34: no family goroutine stays at its send forever (a goroutine that
\* has sent is done for good), also after Run has returned: every send is
\* received in the end; the receiver is the Manager or the drain
\* goroutine, never both; and the channel is closed only by that receiver
\* after it received, so it is never closed twice and never sent on once
\* closed.
C34_SendReceivedClosedOnce ==
    /\ <>[](\A f \in FamilyTypes : task[f] # "sending")
    /\ [](\A f \in FamilyTypes :
              /\ drain[f] # "none" => ~JoinedBefore(f, Len(log) + 1)
              /\ task[f] \in { "running", "sending" } => chan[f] = "open"
              /\ chan[f] = "closed"
                     => /\ task[f] = "done"
                        /\ drain[f] = "done" \/ JoinedBefore(f, Len(log) + 1)
              /\ task[f] = "done" \/ drain[f] = "done" => chan[f] = "closed")
    /\ [][\A f \in FamilyTypes :
              /\ chan[f] = "closed" => chan'[f] = "closed"
              /\ task[f] = "done" => task'[f] = "done"
              /\ chan[f] # chan'[f] /\ chan'[f] = "closed"
                     => task[f] = "sending" /\ task'[f] = "done"]_vars

\* C34 witness: Run has returned and the drain goroutine of an aborted
\* family has received the family's late result and closed the channel.
C34_Witness ==
    /\ pc = "done"
    /\ \E f \in config :
           /\ Aborted(f)
           /\ drain[f] = "done"
           /\ task[f] = "done"
           /\ chan[f] = "closed"

\* C35: if from some time on every launched family has returned from its
\* Run or the context is cancelled, Manager.Run returns.
C35_RunTerminates ==
    <>[](\A f \in FamilyTypes : task[f] # "running" \/ cancelled)
        => <>(pc = "done")

\* C35 witness: Run has returned while the Run of a family it launched is
\* still executing.
C35_Witness ==
    /\ pc = "done"
    /\ cancelled
    /\ \E f \in config : task[f] = "running"

\* ------------------------------------------------------------------------
\* Azure provider: ensureScannerVirtualMachine under its poll loop
\* ------------------------------------------------------------------------

\* The Manager when it is not part of the behaviour.
ManagerIdle ==
    /\ config = {}
    /\ families = << >>
    /\ i = 1
    /\ pc = "done"
    /\ cancelled = FALSE
    /\ errors = << >>
    /\ oneOrMoreFamilyFailed = FALSE
    /\ familyResults = NewResults
    /\ task = [f \in FamilyTypes |-> "none"]
    /\ taskRet = [f \in FamilyTypes |-> NoFamilyResult]
    /\ chan = [f \in FamilyTypes |-> "none"]
    /\ drain = [f \in FamilyTypes |-> "none"]
    /\ runInput = [f \in FamilyTypes |-> NewResults]
    /\ log = << >>
    /\ cancelledDuring = "none"

\* Before the first call: a job config, and Azure holding any scanner VMs in
\* any provisioning state.
InitEnsure ==
    /\ ManagerIdle
    /\ TagsIdle
    /\ ScanIdle
    /\ DBIdle
    /\ jobConfig \in ScanResultIDs
    /\ vms \in [VMNames -> {"absent"} \cup ProvisioningStates]
    /\ vmPc = "idle"
    /\ calls = 0
    /\ azLog = << >>

\* vmName := scannerVMNameFromJobConfig(config)
vmName == scannerVMNameFromJobConfig(jobConfig)

\* Entries of azLog: a request of call number c with its outcome (azerr is ""
\* when it succeeded), and the return of a call.
GetEvent(c, name, state, azerr) ==
    [call |-> c, op |-> "Get", name |-> name, state |-> state,
     azerr |-> azerr, vm |-> EmptyVirtualMachine, err |-> NilError]
CloudInitEvent(c, azerr) ==
    [call |-> c, op |-> "CloudInit", name |-> "", state |-> "",
     azerr |-> azerr, vm |-> EmptyVirtualMachine, err |-> NilError]
CreateEvent(c, name, azerr) ==
    [call |-> c, op |-> "BeginCreateOrUpdate", name |-> name, state |-> "",
     azerr |-> azerr, vm |-> EmptyVirtualMachine, err |-> NilError]
ReturnEvent(c, vm, err) ==
    [call |-> c, op |-> "Return", name |-> "", state |-> "", azerr |-> "",
     vm |-> vm, err |-> err]

\* GetFound that sends the create-or-update whatever state the VM is in.
GetFound_AlwaysUpdates ==
    /\ vmPc = "idle"
    /\ calls < MaxCalls
    /\ vms[vmName] # "absent"
    /\ calls' = calls + 1
    /\ azLog' = azLog \o
           << GetEvent(calls + 1, vmName, vms[vmName], ""),
              CreateEvent(calls + 1, vmName, ""),
              ReturnEvent(calls + 1, EmptyVirtualMachine,
                          RetryableErrorf(VMCreateEstimateProvisionTime,
                                          "vm created")) >>
    /\ vms' = [vms EXCEPT ![vmName] = "Creating"]
    /\ UNCHANGED << outsideEnsure, jobConfig, vmPc >>

\* GetFound that returns the VM without looking at its provisioning state.
GetFound_IgnoresState ==
    /\ vmPc = "idle"
    /\ calls < MaxCalls
    /\ vms[vmName] # "absent"
    /\ calls' = calls + 1
    /\ azLog' = azLog \o
           << GetEvent(calls + 1, vmName, vms[vmName], ""),
              ReturnEvent(calls + 1, VirtualMachine(vmName, vms[vmName]),
                          NilError) >>
    /\ UNCHANGED << outsideEnsure, jobConfig, vms, vmPc >>

\* vmClient.Get succeeds: the VM is returned, with a retryable error unless
\* its provisioning state is Succeeded.
GetFound ==
    /\ vmPc = "idle"
    /\ calls < MaxCalls
    /\ vms[vmName] # "absent"
    /\ calls' = calls + 1
    /\ azLog' = azLog \o
           << GetEvent(calls + 1, vmName, vms[vmName], ""),
              ReturnEvent(calls + 1, VirtualMachine(vmName, vms[vmName]),
                          IF vms[vmName] # ProvisioningStateSucceeded
                              THEN RetryableErrorf(VMCreateEstimateProvisionTime,
                                                   "VM is not ready yet")
                              ELSE NilError) >>
    /\ UNCHANGED << outsideEnsure, jobConfig, vms, vmPc >>

\* The errors vmClient.Get may fail with: not found only if the VM is absent.
GetErrors ==
    { e \in AzureErrors : e = "NotFound" => vms[vmName] = "absent" }

\* GetFails that goes on to create the VM whatever the error was.
GetFails_TreatsAllAsNotFound ==
    /\ vmPc = "idle"
    /\ calls < MaxCalls
    /\ calls' = calls + 1
    /\ \E e \in GetErrors :
           /\ azLog' = Append(azLog, GetEvent(calls + 1, vmName, "", e))
           /\ vmPc' = "notFound"
    /\ UNCHANGED << outsideEnsure, jobConfig, vms >>

\* vmClient.Get fails: on not found the call goes on to create the VM, any
\* other error is returned as handleAzureRequestError classified it.
GetFails ==
    /\ vmPc = "idle"
    /\ calls < MaxCalls
    /\ calls' = calls + 1
    /\ \E e \in GetErrors :
           LET h == handleAzureRequestError(e, "getting scanner virtual machine")
           IN  IF ~h.notFound
                   THEN /\ azLog' = azLog \o
                               << GetEvent(calls + 1, vmName, "", e),
                                  ReturnEvent(calls + 1, EmptyVirtualMachine,
                                              h.err) >>
                        /\ vmPc' = vmPc
                   ELSE /\ azLog' = Append(azLog,
                                           GetEvent(calls + 1, vmName, "", e))
                        /\ vmPc' = "notFound"
    /\ UNCHANGED << outsideEnsure, jobConfig, vms >>

\* cloudinit.New fails: an untyped error is returned and nothing is created.
CloudInitFails ==
    /\ vmPc = "notFound"
    /\ azLog' = azLog \o
           << CloudInitEvent(calls, "failed"),
              ReturnEvent(calls, EmptyVirtualMachine,
                          Errorf("failed to generate cloud-init")) >>
    /\ vmPc' = "idle"
    /\ UNCHANGED << outsideEnsure, jobConfig, vms, calls >>

\* What BeginCreateOrUpdate does to Azure and what the call then returns.
CreateOutcome(e) ==
    IF e = ""
        THEN [vms |-> [vms EXCEPT ![vmName] = "Creating"],
              err |-> RetryableErrorf(VMCreateEstimateProvisionTime,
                                      "vm created")]
        ELSE [vms |-> vms,
              err |-> handleAzureRequestError(e, "creating virtual machine").err]

\* BeginCreateOrUpdate that reports success once the create is acknowledged.
BeginCreateOrUpdate_ReturnsSuccess ==
    /\ vmPc = "notFound"
    /\ \E e \in {""} \cup AzureErrors :
           /\ vms' = CreateOutcome(e).vms
           /\ azLog' = azLog \o
                  << CloudInitEvent(calls, ""),
                     CreateEvent(calls, vmName, e),
                     ReturnEvent(calls,
                                 IF e = "" THEN VirtualMachine(vmName, "Creating")
                                           ELSE EmptyVirtualMachine,
                                 IF e = "" THEN NilError
                                           ELSE CreateOutcome(e).err) >>
    /\ vmPc' = "idle"
    /\ UNCHANGED << outsideEnsure, jobConfig, calls >>

\* cloudinit.New succeeds and vmClient.BeginCreateOrUpdate is sent: when it is
\* acknowledged the VM is being created and a retryable error is returned,
\* when it fails the classified error is returned.
BeginCreateOrUpdate ==
    /\ vmPc = "notFound"
    /\ \E e \in {""} \cup AzureErrors :
           /\ vms' = CreateOutcome(e).vms
           /\ azLog' = azLog \o
                  << CloudInitEvent(calls, ""),
                     CreateEvent(calls, vmName, e),
                     ReturnEvent(calls, EmptyVirtualMachine,
                                 CreateOutcome(e).err) >>
    /\ vmPc' = "idle"
    /\ UNCHANGED << outsideEnsure, jobConfig, calls >>

\* Azure: a VM that is being created reaches a terminal provisioning state.
Provisioning(n) ==
    /\ vms[n] = "Creating"
    /\ \E st \in {ProvisioningStateSucceeded, "Failed"} :
           vms' = [vms EXCEPT ![n] = st]
    /\ UNCHANGED << outsideEnsure, jobConfig, vmPc, calls, azLog >>

NextEnsure ==
    \/ GetFound
    \/ GetFails
    \/ CloudInitFails
    \/ BeginCreateOrUpdate
    \/ \E n \in VMNames : Provisioning(n)

SpecEnsure == InitEnsure /\ [][NextEnsure]_vars

\* Positions of azLog, and those of the requests op of call c.
AzPositions == DOMAIN azLog
RequestsOf(op, c) ==
    { k \in AzPositions : azLog[k].op = op /\ azLog[k].call = c }

\* The calls that have returned.
Returned == { azLog[k].call : k \in { j \in AzPositions : azLog[j].op = "Return" } }

\* The return of call c.
ReturnOf(c) == azLog[CHOOSE k \in AzPositions :
                         azLog[k].op = "Return" /\ azLog[k].call = c]

\* Call c's Get found the VM in provisioning state st.
GetFoundIn(c, st) ==
    \E k \in RequestsOf("Get", c) : azLog[k].azerr = "" /\ azLog[k].state = st

\* Call c's Get failed with the Azure error e.
GetFailedWith(c, e) ==
    \E k \in RequestsOf("Get", c) : azLog[k].azerr = e

\* C17: once a Get has found the job's VM in state Succeeded, that call and
\* every later call that finds the VM return success with the existing VM,
\* and no create request is issued in that call or in any later one.
C17_EnsureIdempotent ==
    \A k \in AzPositions :
        (azLog[k].op = "Get" /\ azLog[k].state = ProvisioningStateSucceeded) =>
            \A j \in AzPositions :
                j > k =>
                    /\ azLog[j].op # "BeginCreateOrUpdate"
                    /\ (azLog[j].op = "Get" /\ azLog[j].azerr = "") =>
                           azLog[j].state = ProvisioningStateSucceeded
                    /\ (azLog[j].op = "Return"
                          /\ GetFoundIn(azLog[j].call, ProvisioningStateSucceeded)) =>
                           /\ azLog[j].err = NilError
                           /\ azLog[j].vm =
                                  VirtualMachine(vmName, ProvisioningStateSucceeded)

\* After a call created the VM, two successive calls have found it in state
\* Succeeded and returned success.
C17_Witness ==
    \E c \in Returned :
        /\ (c + 1) \in Returned
        /\ \E k \in AzPositions :
               /\ azLog[k].op = "BeginCreateOrUpdate"
               /\ azLog[k].azerr = ""
               /\ azLog[k].call < c
        /\ GetFoundIn(c, ProvisioningStateSucceeded)
        /\ GetFoundIn(c + 1, ProvisioningStateSucceeded)
        /\ ReturnOf(c).err = NilError
        /\ ReturnOf(c + 1).err = NilError

\* C18 as claimed: a call whose Get reported not found has issued exactly
\* one begin-create, for the VM name of the job config, and returned a
\* retryable error; no call that issued a create returned success.
C18_NotFoundCreatesAndRetries ==
    \A c \in Returned :
        /\ GetFailedWith(c, "NotFound") =>
               /\ Cardinality(RequestsOf("BeginCreateOrUpdate", c)) = 1
               /\ \A k \in RequestsOf("BeginCreateOrUpdate", c) :
                      azLog[k].name = scannerVMNameFromJobConfig(jobConfig)
               /\ ReturnOf(c).err.kind = "retryable"
        /\ RequestsOf("BeginCreateOrUpdate", c) # {} =>
               ReturnOf(c).err # NilError

\* C18 as amended: such a call has issued at most one begin-create, for the
\* VM name of the job config, and exactly one unless generating the
\* cloud-init failed; it returned a retryable error exactly when the
\* begin-create was acknowledged, and an error in every case.
C18_NotFoundCreatesOnce ==
    \A c \in Returned :
        /\ GetFailedWith(c, "NotFound") =>
               /\ Cardinality(RequestsOf("BeginCreateOrUpdate", c)) <= 1
               /\ \A k \in RequestsOf("BeginCreateOrUpdate", c) :
                      azLog[k].name = scannerVMNameFromJobConfig(jobConfig)
               /\ RequestsOf("BeginCreateOrUpdate", c) = {} <=>
                      \E k \in RequestsOf("CloudInit", c) : azLog[k].azerr # ""
               /\ ReturnOf(c).err.kind = "retryable" <=>
                      \E k \in RequestsOf("BeginCreateOrUpdate", c) :
                          azLog[k].azerr = ""
               /\ ReturnOf(c).err.kind = "retryable" =>
                      ReturnOf(c).err.after = VMCreateEstimateProvisionTime
               /\ ReturnOf(c).err # NilError
        /\ RequestsOf("BeginCreateOrUpdate", c) # {} =>
               ReturnOf(c).err # NilError

\* A call found the VM missing, its begin-create was acknowledged and it
\* returned a retryable error.
C18_Witness ==
    \E c \in Returned :
        /\ GetFailedWith(c, "NotFound")
        /\ \E k \in RequestsOf("BeginCreateOrUpdate", c) : azLog[k].azerr = ""
        /\ ReturnOf(c).err.kind = "retryable"

\* C19: a call whose Get found the VM in a provisioning state other than
\* Succeeded has returned a retryable error carrying
\* VMCreateEstimateProvisionTime and has issued no create or update.
C19_NotReadyIsRetryable ==
    \A c \in Returned :
        \A st \in ProvisioningStates \ {ProvisioningStateSucceeded} :
            GetFoundIn(c, st) =>
                /\ ReturnOf(c).err.kind = "retryable"
                /\ ReturnOf(c).err.after = VMCreateEstimateProvisionTime
                /\ RequestsOf("BeginCreateOrUpdate", c) = {}

\* A call has found the VM still being created, after an earlier call
\* created it, and returned a retryable error.
C19_Witness ==
    \E c \in Returned :
        /\ GetFoundIn(c, "Creating")
        /\ ReturnOf(c).err.kind = "retryable"
        /\ \E k \in AzPositions :
               /\ azLog[k].op = "BeginCreateOrUpdate"
               /\ azLog[k].azerr = ""
               /\ azLog[k].call < c

\* C20: a Get error other than not found, and any begin-create error, is
\* followed at once by the return of the call, with an error that is neither
\* nil nor retryable; after such a Get error the call issues no create.
C20_RequestErrorsSurface ==
    \A k \in AzPositions :
        ( \/ azLog[k].op = "Get" /\ azLog[k].azerr \notin {"", "NotFound"}
          \/ azLog[k].op = "BeginCreateOrUpdate" /\ azLog[k].azerr # "" ) =>
            /\ (k + 1) \in AzPositions
            /\ azLog[k + 1].op = "Return"
            /\ azLog[k + 1].call = azLog[k].call
            /\ azLog[k + 1].err.kind \notin {"nil", "retryable"}
            /\ azLog[k].op = "Get" =>
                   RequestsOf("BeginCreateOrUpdate", azLog[k].call) = {}

\* One call's Get failed with an error other than not found, and another
\* call's begin-create failed; both calls have returned.
C20_Witness ==
    \E c, d \in Returned :
        /\ \E k \in RequestsOf("Get", c) :
               azLog[k].azerr \notin {"", "NotFound"}
        /\ \E k \in RequestsOf("BeginCreateOrUpdate", d) : azLog[k].azerr # ""

\* ------------------------------------------------------------------------
\* Azure provider: target discovery and tag filtering
\* ------------------------------------------------------------------------

\* models.Tag values.
Tag(k, v) == [Key |-> k, Value |-> v]
TagKeys == { "env", "team" }
AllTags == { Tag("env", "prod"), Tag("env", "dev"), Tag("team", "x") }

\* The vm.Tags maps: each key absent or mapped to one of its values.
TagMaps ==
    UNION { { m \in [K -> { t.Value : t \in AllTags }] :
                  \A k \in K : Tag(k, m[k]) \in AllTags } : K \in SUBSET TagKeys }

\* The tag selectors of a scan scope: nil, or up to MaxSelectorTags tags.
Selectors ==
    { Selector(TRUE, << >>) }
        \cup { Selector(FALSE, ts) :
                   ts \in UNION { [1..n -> AllTags] : n \in 0..MaxSelectorTags } }

\* The pages of listed virtual machines: the ID of a VM is its position.
VMLists ==
    UNION { { [k \in 1..n |-> [ID |-> k, Tags |-> ms[k]]] : ms \in [1..n -> TagMaps] } :
                n \in 0..MaxVMs }

\* The loop over the selector's tags: false at the first tag whose key the
\* VM lacks or whose value differs, true when the tags are exhausted.
RECURSIVE TagsLoop(_, _, _)
TagsLoop(vm, tags, k) ==
    IF k > Len(tags) THEN TRUE
    ELSE IF tags[k].Key \notin DOMAIN vm.Tags THEN FALSE
    ELSE IF vm.Tags[tags[k].Key] # tags[k].Value THEN FALSE
    ELSE TagsLoop(vm, tags, k + 1)

\* The loop that answers true at the first tag the VM carries.
RECURSIVE AnyTagLoop(_, _, _)
AnyTagLoop(vm, tags, k) ==
    IF k > Len(tags) THEN FALSE
    ELSE IF tags[k].Key \in DOMAIN vm.Tags
              /\ vm.Tags[tags[k].Key] = tags[k].Value THEN TRUE
    ELSE AnyTagLoop(vm, tags, k + 1)

\* hasIncludeTags with OR logic: one tag of the selector is enough.
hasIncludeTags_AnyTag(vm, sel) ==
    IF sel.isNil THEN TRUE
    ELSE IF Len(sel.tags) = 0 THEN TRUE
    ELSE IF DOMAIN vm.Tags = {} THEN FALSE
    ELSE AnyTagLoop(vm, sel.tags, 1)

hasIncludeTags(vm, sel) ==
    IF sel.isNil THEN TRUE
    ELSE IF Len(sel.tags) = 0 THEN TRUE
    ELSE IF DOMAIN vm.Tags = {} THEN FALSE
    ELSE TagsLoop(vm, sel.tags, 1)

\* hasExcludeTags with OR logic: one tag of the selector is enough.
hasExcludeTags_AnyTag(vm, sel) ==
    IF sel.isNil THEN FALSE
    ELSE IF Len(sel.tags) = 0 THEN FALSE
    ELSE IF DOMAIN vm.Tags = {} THEN FALSE
    ELSE AnyTagLoop(vm, sel.tags, 1)

hasExcludeTags(vm, sel) ==
    IF sel.isNil THEN FALSE
    ELSE IF Len(sel.tags) = 0 THEN FALSE
    ELSE IF DOMAIN vm.Tags = {} THEN FALSE
    ELSE TagsLoop(vm, sel.tags, 1)

\* convertTags: the tags of the map, as models.Tag values.
convertTags(m) == { Tag(k, m[k]) : k \in DOMAIN m }

\* getVMInfoFromVirtualMachine: the VMInfo target of a virtual machine.
getVMInfoFromVirtualMachine(vm) ==
    [ObjectType |-> "VMInfo", InstanceID |-> vm.ID, Tags |-> convertTags(vm.Tags)]

\* processVirtualMachineListIntoTargetTypes: the targets of the VMs that pass
\* the inclusion selector and are not caught by the exclusion selector.
RECURSIVE processVirtualMachineListIntoTargetTypes(_, _, _)
processVirtualMachineListIntoTargetTypes(list, scope, k) ==
    IF k > Len(list) THEN << >>
    ELSE (IF ~hasIncludeTags(list[k], scope.InstanceTagSelector) THEN << >>
          ELSE IF hasExcludeTags(list[k], scope.InstanceTagExclusion) THEN << >>
          ELSE << getVMInfoFromVirtualMachine(list[k]) >>)
             \o processVirtualMachineListIntoTargetTypes(list, scope, k + 1)

\* A listed page and a scan scope.
InitTags ==
    /\ ManagerIdle
    /\ EnsureIdle
    /\ ScanIdle
    /\ DBIdle
    /\ vmList \in VMLists
    /\ scanScope \in [InstanceTagSelector : Selectors,
                      InstanceTagExclusion : Selectors]
    /\ discovered = FALSE
    /\ targets = << >>

\* DiscoverTargets processes the page.
DiscoverTargets ==
    /\ ~discovered
    /\ targets' = processVirtualMachineListIntoTargetTypes(vmList, scanScope, 1)
    /\ discovered' = TRUE
    /\ UNCHANGED << outsideTags, vmList, scanScope >>

NextTags == DiscoverTargets

SpecTags == InitTags /\ [][NextTags]_vars

\* The VM carries the tag t: it has t's key, with t's value.
Carries(vm, t) == t.Key \in DOMAIN vm.Tags /\ vm.Tags[t.Key] = t.Value

\* The VM carries every tag of the selector.
CarriesAll(vm, sel) == \A k \in DOMAIN sel.tags : Carries(vm, sel.tags[k])

\* The selector is absent or empty.
EmptySelector(sel) == sel.isNil \/ sel.tags = << >>

\* The VM of the page at position k has been returned as a target.
IsTarget(k) == \E j \in DOMAIN targets : targets[j].InstanceID = vmList[k].ID

\* C29: hasIncludeTags answers true exactly when the VM carries every tag of
\* the inclusion selector; so an absent or empty selector matches every VM,
\* and a VM that lacks a key of a non-empty selector, or has no tags, does
\* not match; and no VM failing the selector is among the returned targets.
C29_IncludeIsAnd ==
    \A k \in DOMAIN vmList :
        LET vm == vmList[k]
            sel == scanScope.InstanceTagSelector
        IN  /\ hasIncludeTags(vm, sel) <=> CarriesAll(vm, sel)
            /\ EmptySelector(sel) => hasIncludeTags(vm, sel)
            /\ (~EmptySelector(sel)
                  /\ \E j \in DOMAIN sel.tags : sel.tags[j].Key \notin DOMAIN vm.Tags)
                   => ~hasIncludeTags(vm, sel)
            /\ (discovered /\ ~CarriesAll(vm, sel)) => ~IsTarget(k)

\* The page has been processed with an inclusion selector of two different
\* tags: a VM carrying both was returned, and a VM carrying only one of them
\* was not.
C29_Witness ==
    /\ discovered
    /\ LET sel == scanScope.InstanceTagSelector
       IN  /\ ~sel.isNil
           /\ Len(sel.tags) = 2
           /\ sel.tags[1].Key # sel.tags[2].Key
           /\ \E k, j \in DOMAIN vmList :
                  /\ CarriesAll(vmList[k], sel)
                  /\ IsTarget(k)
                  /\ Carries(vmList[j], sel.tags[1])
                  /\ ~Carries(vmList[j], sel.tags[2])
                  /\ ~IsTarget(j)

EnvProd == Selector(FALSE, << Tag("env", "prod") >>)
AssetProdX == [env |-> "prod", team |-> "x"]
AssetNoEnv == [team |-> "x"]

instanceIDPartsLength == 9
resourceGroupPartIdx == 4
vmNamePartIdx == 8
VMDiskAttachEstimateTime == 2
AttachLun == 0

\* The wait the ensure steps outside this source report with a retryable
\* error.
EnsureEstimateTime == VMCreateEstimateProvisionTime

\* Strings are sequences of characters. strings.Split(s, "/"): the parts of
\* s between the separators.
RECURSIVE SplitFrom(_, _, _)
SplitFrom(str, k, cur) ==
    IF k > Len(str) THEN << cur >>
    ELSE IF str[k] = "/" THEN << cur >> \o SplitFrom(str, k + 1, << >>)
    ELSE SplitFrom(str, k + 1, Append(cur, str[k]))

Split(str) == SplitFrom(str, 1, << >>)

\* The parts joined with "/": how the instance ids of the model are built.
RECURSIVE JoinParts(_, _)
JoinParts(parts, k) ==
    IF k > Len(parts) THEN << >>
    ELSE (IF k = 1 THEN << >> ELSE << "/" >>) \o parts[k] \o JoinParts(parts, k + 1)

\* resourceGroupAndNameFromInstanceID that accepts an id with more parts.
resourceGroupAndNameFromInstanceID_AtLeast(instanceID) ==
    LET idParts == Split(instanceID)
    IN  IF Len(idParts) < instanceIDPartsLength
            THEN [rg |-> << >>, name |-> << >>,
                  err |-> FatalErrorf("asset instance id in unexpected format")]
            ELSE [rg |-> idParts[resourceGroupPartIdx + 1],
                  name |-> idParts[vmNamePartIdx + 1],
                  err |-> NilError]

\* resourceGroupAndNameFromInstanceID: the parts at the (0-based) indexes 4
\* and 8 of an id of exactly 9 parts, a fatal error for any other id.
resourceGroupAndNameFromInstanceID(instanceID) ==
    LET idParts == Split(instanceID)
    IN  IF Len(idParts) # instanceIDPartsLength
            THEN [rg |-> << >>, name |-> << >>,
                  err |-> FatalErrorf("asset instance id in unexpected format")]
            ELSE [rg |-> idParts[resourceGroupPartIdx + 1],
                  name |-> idParts[vmNamePartIdx + 1],
                  err |-> NilError]

\* Part lists of n parts in the shape of an Azure resource id: an empty
\* first part, the resource group at index 4 and the VM name at index 8.
IDParts(n, rg, name) ==
    [k \in 1..n |-> IF k = 1 THEN << >>
                    ELSE IF k = resourceGroupPartIdx + 1 THEN << rg >>
                    ELSE IF k = vmNamePartIdx + 1 THEN << name >>
                    ELSE << "x" >>]

\* The instance ids of the model: the id of the target VM, the id of a VM
\* that does not exist, ids with a part missing or a part too many, and the
\* empty id.
InstanceIDs ==
    { JoinParts(IDParts(n, "g", "n"), 1) :
          n \in (instanceIDPartsLength - 1)..(instanceIDPartsLength + 1) }
        \cup { JoinParts(IDParts(instanceIDPartsLength, "g", "m"), 1), << >> }

\* The virtual machines Azure holds besides the scanner VMs: << resource
\* group, name >>.
TargetVMs == { << << "g" >>, << "n" >> >> }

\* The targets of a job config: a VMInfo with an instance id, or not a VMInfo.
TargetInfos ==
    { [isVMInfo |-> FALSE, InstanceID |-> << >>] }
        \cup { [isVMInfo |-> TRUE, InstanceID |-> id] : id \in InstanceIDs }

\* fmt.Errorf("...: %w", err): the wrapped error keeps its type.
Wrap(msg, err) == [err EXCEPT !.msg = msg]

\* The steps of RunTargetScan after the target lookup, in order.
RunSteps == << "snapshot", "disk", "nic", "vm", "attach" >>
StepIndex(st) == CHOOSE k \in 1..Len(RunSteps) : RunSteps[k] = st

\* Positions of a poll loop.
Idle == [step |-> "idle", phase |-> ""]
Stopped == [step |-> "stopped", phase |-> ""]
At(st, ph) == [step |-> st, phase |-> ph]

\* A request to Azure: its operation, the resource kind and name it is for,
\* the function that issued it, the data disks it sets, and its outcome: the
\* error, or else the state a Get found ("ok" for the target VM) and "ok" for
\* an acknowledged create or update.
Req(op, kind, name, fn, disks, out) ==
    [op |-> op, kind |-> kind, name |-> name, fn |-> fn, disks |-> disks,
     out |-> out]

\* The errors a Get may fail with: not found only if the resource is absent.
GetErrorsOf(exists) == { e \in AzureErrors : e = "NotFound" => ~exists }

\* Finish that goes on with the next step when an ensure step of the generic
\* contract returns a retryable error.
Finish_ContinuesOnRetryable(c, err, rq) ==
    IF err.kind = "retryable" /\ spc[c].step \in { "snapshot", "disk", "nic" }
        THEN /\ scanRet' = [scanRet EXCEPT ![c] = NoReturn]
             /\ spc' = [spc EXCEPT ![c] =
                            At(RunSteps[StepIndex(spc[c].step) + 1], "get")]
             /\ reqs' = [reqs EXCEPT ![c] = rq]
        ELSE /\ scanRet' = [scanRet EXCEPT ![c] = err]
             /\ spc' = [spc EXCEPT ![c] =
                            IF err.kind = "retryable" THEN Idle ELSE Stopped]
             /\ reqs' = [reqs EXCEPT ![c] = rq]

\* The call of poller c returns err: the poll loop calls again after a
\* retryable error and ends after success or any other error.
Finish(c, err, rq) ==
    /\ scanRet' = [scanRet EXCEPT ![c] = err]
    /\ spc' = [spc EXCEPT ![c] = IF err.kind = "retryable" THEN Idle ELSE Stopped]
    /\ reqs' = [reqs EXCEPT ![c] = rq]

\* The call of poller c goes on at position pos.
Goto(c, pos, rq) ==
    /\ scanRet' = [scanRet EXCEPT ![c] = NoReturn]
    /\ spc' = [spc EXCEPT ![c] = pos]
    /\ reqs' = [reqs EXCEPT ![c] = rq]

\* The function RunTargetScan calls for a step.
StepFn(st) ==
    CASE st = "snapshot" -> "ensureSnapshotForVMRootVolume"
      [] st = "disk" -> IF sameRegion
                            THEN "ensureManagedDiskFromSnapshot"
                            ELSE "ensureManagedDiskFromSnapshotInDifferentRegion"
      [] st = "nic" -> "ensureNetworkInterface"
      [] st = "vm" -> "ensureScannerVirtualMachine"
      [] st = "attach" -> "ensureDiskAttachedToScannerVM"

\* The position after step st succeeded.
AfterStep(st) ==
    IF st = "vm" THEN At("attach", "put") ELSE At(RunSteps[StepIndex(st) + 1], "get")

\* A fresh job: none of its resources exists.
InitScanWith(ps) ==
    /\ ManagerIdle
    /\ TagsIdle
    /\ DBIdle
    /\ jobConfig = 1
    /\ vms = [n \in VMNames |-> "absent"]
    /\ vmPc = "idle"
    /\ calls = 0
    /\ azLog = << >>
    /\ pollers = ps
    /\ targetInfo \in TargetInfos
    /\ sameRegion \in BOOLEAN
    /\ azRes = [k \in ResourceKinds |-> "absent"]
    /\ dataDisks = {}
    /\ diskState = "Unattached"
    /\ spc = [c \in Callers |-> Idle]
    /\ vmSeen = [c \in Callers |-> {}]
    /\ reqs = [c \in Callers |-> << >>]
    /\ scanRet = [c \in Callers |-> NoReturn]
    /\ callInfo = NoCallInfo

\* RunTargetScan is called: the target is read as a VMInfo, its instance id
\* is parsed and the target VM is looked up.
Locate(c) ==
    /\ c \in pollers
    /\ spc[c] = Idle
    /\ IF ~targetInfo.isVMInfo
           THEN Finish(c, FatalErrorf("unable to get vminfo from target"), << >>)
           ELSE LET p == resourceGroupAndNameFromInstanceID(targetInfo.InstanceID)
                    coord == << p.rg, p.name >>
                IN  IF p.err # NilError
                        THEN Finish(c, p.err, << >>)
                        ELSE \/ /\ coord \in TargetVMs
                                /\ Goto(c, At("snapshot", "get"),
                                        << Req("Get", "target", coord,
                                               "RunTargetScan", {}, "ok") >>)
                             \/ \E e \in GetErrorsOf(coord \in TargetVMs) :
                                    Finish(c,
                                           handleAzureRequestError(e,
                                               "getting target virtual machine").err,
                                           << Req("Get", "target", coord,
                                                  "RunTargetScan", {}, e) >>)
    /\ UNCHANGED << outsideScan, vms, pollers, targetInfo, sameRegion, azRes,
                    dataDisks, diskState, vmSeen >>

\* An ensure step of the generic contract (snapshot, disk, network
\* interface) calls get: a ready resource lets the call go on, one still
\* being created ends it with a retryable error, not found leads to the
\* create, and any other error is returned.
EnsureGet(c) ==
    /\ c \in pollers
    /\ spc[c].step \in { "snapshot", "disk", "nic" }
    /\ spc[c].phase = "get"
    /\ LET k == spc[c].step
           rq(out) == Append(reqs[c], Req("Get", k, k, StepFn(k), {}, out))
       IN  \/ /\ azRes[k] = "ready"
              /\ Goto(c, AfterStep(k), rq(azRes[k]))
           \/ /\ azRes[k] = "creating"
              /\ Finish(c, Wrap(StepFn(k),
                                RetryableErrorf(EnsureEstimateTime, "not ready")),
                        rq(azRes[k]))
           \/ \E e \in GetErrorsOf(azRes[k] # "absent") :
                  LET h == handleAzureRequestError(e, "getting")
                  IN  IF h.notFound
                          THEN Goto(c, At(k, "create"), rq(e))
                          ELSE Finish(c, Wrap(StepFn(k), h.err), rq(e))
    /\ UNCHANGED << outsideScan, vms, pollers, targetInfo, sameRegion, azRes,
                    dataDisks, diskState, vmSeen >>

\* An ensure step of the generic contract issues the create: acknowledged,
\* the resource is being created and a retryable error is returned; failed,
\* the classified error is returned.
EnsureCreate(c) ==
    /\ c \in pollers
    /\ spc[c].step \in { "snapshot", "disk", "nic" }
    /\ spc[c].phase = "create"
    /\ LET k == spc[c].step
           rq(out) ==
               Append(reqs[c], Req("BeginCreateOrUpdate", k, k, StepFn(k), {}, out))
       IN  \/ /\ azRes' = [azRes EXCEPT ![k] = IF @ = "absent" THEN "creating" ELSE @]
              /\ Finish(c, Wrap(StepFn(k),
                                RetryableErrorf(EnsureEstimateTime, "created")),
                        rq("ok"))
           \/ /\ azRes' = azRes
              /\ \E e \in AzureErrors :
                     Finish(c, Wrap(StepFn(k),
                                    handleAzureRequestError(e, "creating").err),
                            rq(e))
    /\ UNCHANGED << outsideScan, vms, pollers, targetInfo, sameRegion,
                    dataDisks, diskState, vmSeen >>

\* A scanner VM name taken from the caller instead of the job config.
scanVMName_PerCaller(c) == scannerVMNameFromJobConfig(c)

\* The name poller c uses for the scanner VM: that of the job config.
scanVMName(c) == scannerVMNameFromJobConfig(jobConfig)

\* The target disk as an entry of the scanner VM's DataDisks.
DataDisk(lun) == [Lun |-> lun, ID |-> "disk"]

\* ScanVMGet that goes on to the attach step whatever the provisioning state.
ScanVMGet_IgnoresState(c) ==
    /\ c \in pollers
    /\ spc[c] = At("vm", "get")
    /\ LET n == scanVMName(c)
           rq(out) == Append(reqs[c], Req("Get", "vm", n, StepFn("vm"), {}, out))
       IN  \/ /\ vms[n] # "absent"
              /\ vmSeen' = [vmSeen EXCEPT ![c] = dataDisks]
              /\ Goto(c, AfterStep("vm"), rq(vms[n]))
           \/ /\ vmSeen' = vmSeen
              /\ \E e \in GetErrorsOf(vms[n] # "absent") :
                     LET h == handleAzureRequestError(e, "getting scanner virtual machine")
                     IN  IF h.notFound
                             THEN Goto(c, At("vm", "create"), rq(e))
                             ELSE Finish(c, Wrap(StepFn("vm"), h.err), rq(e))
    /\ UNCHANGED << outsideScan, vms, pollers, targetInfo, sameRegion, azRes,
                    dataDisks, diskState >>

\* ensureScannerVirtualMachine, the Get (scannerVm.go 46-57) as a step of
\* poller c: a Succeeded VM is handed to the attach step, any other state
\* ends the call with a retryable error.
ScanVMGet(c) ==
    /\ c \in pollers
    /\ spc[c] = At("vm", "get")
    /\ LET n == scanVMName(c)
           rq(out) == Append(reqs[c], Req("Get", "vm", n, StepFn("vm"), {}, out))
       IN  \/ /\ vms[n] = ProvisioningStateSucceeded
              /\ vmSeen' = [vmSeen EXCEPT ![c] = dataDisks]
              /\ Goto(c, AfterStep("vm"), rq(vms[n]))
           \/ /\ vms[n] \notin { "absent", ProvisioningStateSucceeded }
              /\ vmSeen' = vmSeen
              /\ Finish(c, Wrap(StepFn("vm"),
                                RetryableErrorf(VMCreateEstimateProvisionTime,
                                                "VM is not ready yet")),
                        rq(vms[n]))
           \/ /\ vmSeen' = vmSeen
              /\ \E e \in GetErrorsOf(vms[n] # "absent") :
                     LET h == handleAzureRequestError(e, "getting scanner virtual machine")
                     IN  IF h.notFound
                             THEN Goto(c, At("vm", "create"), rq(e))
                             ELSE Finish(c, Wrap(StepFn("vm"), h.err), rq(e))
    /\ UNCHANGED << outsideScan, vms, pollers, targetInfo, sameRegion, azRes,
                    dataDisks, diskState >>

\* What an acknowledged BeginCreateOrUpdate without data disks does to a VM
\* that already exists is Azure's choice: its data disks are kept (keep) or
\* detached.
AfterVMCreate(n, keep) ==
    [vms |-> [vms EXCEPT ![n] = IF @ = "absent" THEN "Creating" ELSE "Updating"],
     dataDisks |-> IF keep THEN dataDisks ELSE {},
     diskState |-> IF keep THEN diskState ELSE "Unattached"]

\* ScanVMCreate that deletes the network interface when the create fails.
ScanVMCreate_RollsBack(c) ==
    /\ c \in pollers
    /\ spc[c] = At("vm", "create")
    /\ LET n == scanVMName(c)
           rq(out) == Append(reqs[c],
                             Req("BeginCreateOrUpdate", "vm", n, StepFn("vm"), {}, out))
       IN  \/ /\ \E keep \in BOOLEAN :
                     /\ vms' = AfterVMCreate(n, keep).vms
                     /\ dataDisks' = AfterVMCreate(n, keep).dataDisks
                     /\ diskState' = AfterVMCreate(n, keep).diskState
              /\ azRes' = azRes
              /\ Finish(c, Wrap(StepFn("vm"),
                                RetryableErrorf(VMCreateEstimateProvisionTime,
                                                "vm created")),
                        rq("ok"))
           \/ /\ UNCHANGED << vms, dataDisks, diskState >>
              /\ azRes' = [azRes EXCEPT !["nic"] = "absent"]
              /\ \E e \in AzureErrors :
                     Finish(c, Wrap(StepFn("vm"),
                                    handleAzureRequestError(e,
                                        "creating virtual machine").err),
                            rq(e) \o << Req("BeginDelete", "nic", "nic",
                                            StepFn("vm"), {}, "ok") >>)
    /\ UNCHANGED << outsideScan, pollers, targetInfo, sameRegion, vmSeen >>

\* ensureScannerVirtualMachine, cloudinit.New fails (59-62), as a step of
\* poller c.
ScanCloudInitFails(c) ==
    /\ c \in pollers
    /\ spc[c] = At("vm", "create")
    /\ Finish(c, Wrap(StepFn("vm"), Errorf("failed to generate cloud-init")),
              reqs[c])
    /\ UNCHANGED << outsideScan, vms, pollers, targetInfo, sameRegion, azRes,
                    dataDisks, diskState, vmSeen >>

\* ensureScannerVirtualMachine, the BeginCreateOrUpdate (124-130), as a step
\* of poller c.
ScanVMCreate(c) ==
    /\ c \in pollers
    /\ spc[c] = At("vm", "create")
    /\ LET n == scanVMName(c)
           rq(out) == Append(reqs[c],
                             Req("BeginCreateOrUpdate", "vm", n, StepFn("vm"), {}, out))
       IN  \/ /\ \E keep \in BOOLEAN :
                     /\ vms' = AfterVMCreate(n, keep).vms
                     /\ dataDisks' = AfterVMCreate(n, keep).dataDisks
                     /\ diskState' = AfterVMCreate(n, keep).diskState
              /\ Finish(c, Wrap(StepFn("vm"),
                                RetryableErrorf(VMCreateEstimateProvisionTime,
                                                "vm created")),
                        rq("ok"))
           \/ /\ UNCHANGED << vms, dataDisks, diskState >>
              /\ \E e \in AzureErrors :
                     Finish(c, Wrap(StepFn("vm"),
                                    handleAzureRequestError(e,
                                        "creating virtual machine").err),
                            rq(e))
    /\ UNCHANGED << outsideScan, pollers, targetInfo, sameRegion, azRes, vmSeen >>

\* AttachDisk that waits inside the call for the attachment it requested.
AttachDisk_Waits(c) ==
    /\ c \in pollers
    /\ spc[c] = At("attach", "put")
    /\ LET n == scanVMName(c)
           rq(out) ==
               Append(reqs[c],
                      Req("BeginCreateOrUpdate", "vm", n, StepFn("attach"),
                          { DataDisk(AttachLun) }, out))
       IN  IF \E d \in vmSeen[c] : d.ID = DataDisk(AttachLun).ID
               THEN /\ Goto(c, At("attach", "get"), reqs[c])
                    /\ UNCHANGED << vms, dataDisks, diskState >>
               ELSE \/ /\ \E st \in { vms[n], "Updating" } :
                              vms' = [vms EXCEPT ![n] = st]
                       /\ dataDisks' = { DataDisk(AttachLun) }
                       /\ diskState' = IF diskState = "Unattached"
                                           THEN "Reserved" ELSE diskState
                       /\ Goto(c, At("attach", "wait"), rq("ok"))
                    \/ /\ UNCHANGED << vms, dataDisks, diskState >>
                       /\ \E e \in AzureErrors :
                              Finish(c, Wrap(StepFn("attach"),
                                             handleAzureRequestError(e,
                                                 "attaching disk").err),
                                     rq(e))
    /\ UNCHANGED << outsideScan, pollers, targetInfo, sameRegion, azRes, vmSeen >>

\* AttachDisk that updates the VM whether or not it lists the disk.
AttachDisk_AlwaysUpdates(c) ==
    /\ c \in pollers
    /\ spc[c] = At("attach", "put")
    /\ LET n == scanVMName(c)
           rq(out) ==
               Append(reqs[c],
                      Req("BeginCreateOrUpdate", "vm", n, StepFn("attach"),
                          { DataDisk(AttachLun) }, out))
       IN  \/ /\ \E st \in { vms[n], "Updating" } :
                     vms' = [vms EXCEPT ![n] = st]
              /\ dataDisks' = { DataDisk(AttachLun) }
              /\ diskState' = IF diskState = "Unattached"
                                  THEN "Reserved" ELSE diskState
              /\ Goto(c, At("attach", "get"), rq("ok"))
           \/ /\ UNCHANGED << vms, dataDisks, diskState >>
              /\ \E e \in AzureErrors :
                     Finish(c, Wrap(StepFn("attach"),
                                    handleAzureRequestError(e,
                                        "attaching disk").err),
                            rq(e))
    /\ UNCHANGED << outsideScan, pollers, targetInfo, sameRegion, azRes, vmSeen >>

\* ensureDiskAttachedToScannerVM, lines 151-176: unless the VM value it was
\* given lists the disk among its data disks, the VM is updated with the
\* disk as its data disk at LUN 0. Whether Azure reports the VM as Updating
\* while it attaches the disk is Azure's choice.
AttachDisk(c) ==
    /\ c \in pollers
    /\ spc[c] = At("attach", "put")
    /\ LET n == scanVMName(c)
           rq(out) ==
               Append(reqs[c],
                      Req("BeginCreateOrUpdate", "vm", n, StepFn("attach"),
                          { DataDisk(AttachLun) }, out))
       IN  IF \E d \in vmSeen[c] : d.ID = DataDisk(AttachLun).ID
               THEN /\ Goto(c, At("attach", "get"), reqs[c])
                    /\ UNCHANGED << vms, dataDisks, diskState >>
               ELSE \/ /\ \E st \in { vms[n], "Updating" } :
                              vms' = [vms EXCEPT ![n] = st]
                       /\ dataDisks' = { DataDisk(AttachLun) }
                       /\ diskState' = IF diskState = "Unattached"
                                           THEN "Reserved" ELSE diskState
                       /\ Goto(c, At("attach", "get"), rq("ok"))
                    \/ /\ UNCHANGED << vms, dataDisks, diskState >>
                       /\ \E e \in AzureErrors :
                              Finish(c, Wrap(StepFn("attach"),
                                             handleAzureRequestError(e,
                                                 "attaching disk").err),
                                     rq(e))
    /\ UNCHANGED << outsideScan, pollers, targetInfo, sameRegion, azRes, vmSeen >>

\* DiskGet that is content with any state but Unattached.
DiskGet_AcceptsReserved(c) ==
    /\ c \in pollers
    /\ spc[c] = At("attach", "get")
    /\ LET rq(out) ==
               Append(reqs[c], Req("Get", "disk", "disk", StepFn("attach"), {}, out))
       IN  \/ IF diskState = "Unattached"
                  THEN Finish(c, Wrap(StepFn("attach"),
                                      RetryableErrorf(VMDiskAttachEstimateTime,
                                                      "volume is not yet attached")),
                              rq(diskState))
                  ELSE Finish(c, NilError, rq(diskState))
           \/ \E e \in GetErrorsOf(TRUE) :
                  Finish(c, Wrap(StepFn("attach"),
                                 handleAzureRequestError(e, "getting disk").err),
                         rq(e))
    /\ UNCHANGED << outsideScan, vms, pollers, targetInfo, sameRegion, azRes,
                    dataDisks, diskState, vmSeen >>

\* ensureDiskAttachedToScannerVM, lines 178-188: the disk is read and the
\* call returns success if its state is Attached, a retryable error if not.
DiskGet(c) ==
    /\ c \in pollers
    /\ spc[c] = At("attach", "get")
    /\ LET rq(out) ==
               Append(reqs[c], Req("Get", "disk", "disk", StepFn("attach"), {}, out))
       IN  \/ IF diskState # "Attached"
                  THEN Finish(c, Wrap(StepFn("attach"),
                                      RetryableErrorf(VMDiskAttachEstimateTime,
                                                      "volume is not yet attached")),
                              rq(diskState))
                  ELSE Finish(c, NilError, rq(diskState))
           \/ \E e \in GetErrorsOf(TRUE) :
                  Finish(c, Wrap(StepFn("attach"),
                                 handleAzureRequestError(e, "getting disk").err),
                         rq(e))
    /\ UNCHANGED << outsideScan, vms, pollers, targetInfo, sameRegion, azRes,
                    dataDisks, diskState, vmSeen >>

\* Azure: a resource that is being created becomes ready.
ResourceReady(k) ==
    /\ azRes[k] = "creating"
    /\ azRes' = [azRes EXCEPT ![k] = "ready"]
    /\ UNCHANGED << outsideScan, vms, pollers, targetInfo, sameRegion,
                    dataDisks, diskState, spc, vmSeen, reqs, scanRet >>

\* Azure: a scanner VM that is being created or updated reaches a terminal
\* provisioning state.
VMProvisioned(n) ==
    /\ vms[n] \in { "Creating", "Updating" }
    /\ \E st \in { ProvisioningStateSucceeded, "Failed" } :
           vms' = [vms EXCEPT ![n] = st]
    /\ UNCHANGED << outsideScan, pollers, targetInfo, sameRegion, azRes,
                    dataDisks, diskState, spc, vmSeen, reqs, scanRet >>

\* Azure: the disk the VM was updated with becomes attached.
DiskAttached ==
    /\ diskState = "Reserved"
    /\ diskState' = "Attached"
    /\ UNCHANGED << outsideScan, vms, pollers, targetInfo, sameRegion, azRes,
                    dataDisks, spc, vmSeen, reqs, scanRet >>

\* A step of poller c.
PollerStep(c) ==
    \/ Locate(c)
    \/ EnsureGet(c)
    \/ EnsureCreate(c)
    \/ ScanVMGet(c)
    \/ ScanCloudInitFails(c)
    \/ ScanVMCreate(c)
    \/ AttachDisk(c)
    \/ DiskGet(c)

\* A step of Azure.
AzureStep ==
    \/ \E k \in ResourceKinds : ResourceReady(k)
    \/ \E n \in VMNames : VMProvisioned(n)
    \/ DiskAttached

NextScan ==
    \/ \E c \in Callers : PollerStep(c)
    \/ AzureStep

\* One poll loop, and two concurrent poll loops for the same job.
InitScan == InitScanWith({ 1 })
InitScan2 == InitScanWith(Callers)

SpecScan == InitScan /\ [][NextScan]_vars
SpecScan2 == InitScan2 /\ [][NextScan]_vars

\* ------------------------------------------------------------------------
\* RunTargetScan: properties of a call
\* ------------------------------------------------------------------------

\* The step of RunTargetScan a request belongs to: 0 for the target lookup,
\* then the index of the step in RunSteps.
StepOfReq(r) ==
    IF r.fn = "RunTargetScan" THEN 0
    ELSE CHOOSE k \in 1..Len(RunSteps) : StepFn(RunSteps[k]) = r.fn

\* The outcomes of a Get that found its resource ready.
ReadyOutcomes == { "ok", "ready", ProvisioningStateSucceeded, "Attached" }

\* A request after which its step returned success.
StepSucceeded(r) == r.op = "Get" /\ r.out \in ReadyOutcomes

\* A request after which its step returned an error: a Get that failed (not
\* found leads to the create in the ensure steps) or found its resource not
\* ready, and any create or update but the acknowledged attach update.
StepFailed(r) ==
    \/ /\ r.op = "Get"
       /\ r.out \notin ReadyOutcomes
       /\ ~(r.out = "NotFound" /\ StepOfReq(r) \in 1..4)
    \/ /\ r.op # "Get"
       /\ ~(r.fn = StepFn("attach") /\ r.out = "ok")

\* The calls that returned and the calls under way.
CallReturned(c) == scanRet[c] # NoReturn
InCall(c) == spc[c] \notin { Idle, Stopped }
MutatingReqs(c) == { k \in DOMAIN reqs[c] : reqs[c][k].op # "Get" }
LastReq(c) == reqs[c][Len(reqs[c])]

\* C21: a call of RunTargetScan issues its requests in the order target
\* lookup, snapshot, disk, network interface, scanner VM, disk attachment,
\* starting with the lookup and skipping no step; it goes on to a step only
\* after the step before returned success; a request whose step returned an
\* error is the last of the call, and the call returned that error (a
\* retryable one for a resource not ready or just created, a fatal one for a
\* failed request); and success is returned only after all six steps.
C21_StepsInOrderUntilFirstError ==
    \A c \in Callers :
        LET rs == reqs[c]
        IN  /\ \A k \in DOMAIN rs :
                   IF k = 1 THEN StepOfReq(rs[k]) = 0
                   ELSE /\ StepOfReq(rs[k]) - StepOfReq(rs[k - 1]) \in { 0, 1 }
                        /\ StepOfReq(rs[k]) > StepOfReq(rs[k - 1])
                               => StepSucceeded(rs[k - 1])
            /\ \A k \in DOMAIN rs :
                   StepFailed(rs[k])
                       => /\ k = Len(rs)
                          /\ ~InCall(c)
                          /\ scanRet[c].kind = IF rs[k].out \in AzureErrors
                                                   THEN "fatal" ELSE "retryable"
            /\ scanRet[c] = NilError
                   => /\ { StepOfReq(rs[k]) : k \in DOMAIN rs } = 0..Len(RunSteps)
                      /\ StepSucceeded(LastReq(c))

\* C21 witness: one call returned a retryable error from the network
\* interface step after the snapshot and disk steps returned success, and
\* another call returned success.
C21_Witness ==
    /\ scanRet[1].kind = "retryable"
    /\ Len(reqs[1]) = 4
    /\ LastReq(1).kind = "nic"
    /\ StepFailed(LastReq(1))
    /\ scanRet[2] = NilError

\* C25: no step of RunTargetScan deletes or sets back anything: a snapshot,
\* disk or network interface only moves forward (absent, creating, ready),
\* a scanner VM never becomes absent; the step that ends a call with an
\* error changes no resource of an earlier step; and every request issued
\* is a Get or a BeginCreateOrUpdate.
C25_NoRollback ==
    [][ /\ \A k \in ResourceKinds :
               \/ azRes'[k] = azRes[k]
               \/ << azRes[k], azRes'[k] >> \in
                      { << "absent", "creating" >>, << "creating", "ready" >> }
        /\ \A n \in VMNames : vms[n] # "absent" => vms'[n] # "absent"
        /\ \A c \in Callers :
               /\ scanRet'[c] # scanRet[c]
               /\ scanRet'[c].kind \in { "retryable", "fatal", "error" }
               /\ InCall(c)
               => /\ \A k \in { "snapshot", "disk", "nic" } :
                         StepIndex(k) < StepIndex(spc[c].step)
                             => azRes'[k] = azRes[k]
                  /\ spc[c].step = "attach" => vms' = vms
        /\ \A c \in Callers : \A k \in DOMAIN reqs'[c] :
               reqs'[c][k].op \in { "Get", "BeginCreateOrUpdate" }
      ]_vars

\* C25 witness: a call failed with a fatal error at the scanner VM step and
\* the snapshot, disk and network interface of the earlier steps are there.
C25_Witness ==
    /\ scanRet[1].kind = "fatal"
    /\ reqs[1] # << >>
    /\ LastReq(1).fn = StepFn("vm")
    /\ LastReq(1).op = "BeginCreateOrUpdate"
    /\ \A k \in { "snapshot", "disk", "nic" } : azRes[k] = "ready"

\* The instance id of the target splits into exactly 9 parts.
WellFormedID == Len(Split(targetInfo.InstanceID)) = instanceIDPartsLength

\* C26: for a target whose instance id does not split on "/" into exactly 9
\* parts, a call returns a fatal error and no request is ever made to
\* Azure; for a well-formed id the first request is the Get of the target
\* VM, by the 5th and the 9th part of the id (indexes 4 and 8).
C26_InstanceID ==
    \A c \in Callers :
        IF targetInfo.isVMInfo /\ ~WellFormedID
            THEN /\ reqs[c] = << >>
                 /\ CallReturned(c) => scanRet[c].kind = "fatal" /\ spc[c] = Stopped
                 /\ \A k \in ResourceKinds : azRes[k] = "absent"
                 /\ \A n \in VMNames : vms[n] = "absent"
            ELSE reqs[c] # << >>
                     => /\ targetInfo.isVMInfo
                        /\ reqs[c][1].op = "Get"
                        /\ reqs[c][1].kind = "target"
                        /\ reqs[c][1].name =
                               << Split(targetInfo.InstanceID)[5],
                                  Split(targetInfo.InstanceID)[9] >>
                        /\ targetInfo.InstanceID =
                               << "/", "x", "/", "x", "/", "x", "/", "g",
                                  "/", "x", "/", "x", "/", "x", "/", "n" >>
                               => reqs[c][1].name = << << "g" >>, << "n" >> >>

\* C26 witness: a call for an id of 10 parts returned, and (in another
\* behaviour) the target VM of a well-formed id was looked up.
C26_Witness ==
    /\ targetInfo.isVMInfo
    /\ Len(Split(targetInfo.InstanceID)) = instanceIDPartsLength + 1
    /\ scanRet[1].kind = "fatal"

C26_WitnessWellFormed ==
    /\ targetInfo.isVMInfo
    /\ WellFormedID
    /\ reqs[1] # << >>
    /\ reqs[1][1].out = "ok"

\* C27: a call never waits: wherever it stands, it has a step to take
\* whatever state Azure's resources are in; it never loops: no request is
\* issued twice in a call; and it issues at most one create or update, which
\* is its last request unless it is the acknowledged attach update, after
\* which only the disk is read.
C27_NonBlockingOneMutation ==
    \A c \in pollers :
        /\ InCall(c) => ENABLED PollerStep(c)
        /\ \A j, k \in DOMAIN reqs[c] :
               /\ reqs[c][j].op = reqs[c][k].op
               /\ reqs[c][j].kind = reqs[c][k].kind
               /\ reqs[c][j].fn = reqs[c][k].fn
               => j = k
        /\ Cardinality(MutatingReqs(c)) <= 1
        /\ \A k \in MutatingReqs(c) :
               \/ k = Len(reqs[c]) /\ (CallReturned(c) \/ StepOfReq(reqs[c][k]) = 5)
               \/ /\ k = Len(reqs[c]) - 1
                  /\ reqs[c][k].fn = StepFn("attach")
                  /\ reqs[c][k].out = "ok"
                  /\ LastReq(c).op = "Get"

\* C27 witness: a call that issued the attach update went on to read the
\* disk and returned, while a resource another call created is still being
\* created.
C27_Witness ==
    /\ CallReturned(1)
    /\ Len(reqs[1]) = 7
    /\ reqs[1][6].op = "BeginCreateOrUpdate"
    /\ scanRet[2].kind = "retryable"
    /\ reqs[2] # << >>
    /\ LastReq(2).op = "BeginCreateOrUpdate"

\* C28: the attach step returns success only for a disk it read as
\* Attached in that call; for any other state read it returns a retryable
\* error with VMDiskAttachEstimateTime, after which the poll loop calls
\* again; and every update that attaches the disk puts it at LUN 0.
C28_AttachedOrRetry ==
    \A c \in Callers :
        /\ scanRet[c] = NilError
               => /\ LastReq(c).fn = StepFn("attach")
                  /\ LastReq(c).op = "Get"
                  /\ LastReq(c).out = "Attached"
        /\ /\ CallReturned(c)
           /\ reqs[c] # << >>
           /\ LastReq(c).fn = StepFn("attach")
           /\ LastReq(c).op = "Get"
           /\ LastReq(c).out \notin AzureErrors \cup { "Attached" }
           => /\ scanRet[c].kind = "retryable"
              /\ scanRet[c].after = VMDiskAttachEstimateTime
              /\ spc[c] = Idle
        /\ \A k \in DOMAIN reqs[c] :
               reqs[c][k].fn = StepFn("attach") /\ reqs[c][k].op # "Get"
                   => /\ reqs[c][k].disks # {}
                      /\ \A d \in reqs[c][k].disks : d.Lun = 0
        /\ \A d \in dataDisks : d.Lun = 0

\* C28 witness: the call that issued the attach update read the disk as
\* Reserved and returned a retryable error.
C28_Witness ==
    /\ scanRet[1].kind = "retryable"
    /\ Len(reqs[1]) = 7
    /\ reqs[1][6].disks = { DataDisk(AttachLun) }
    /\ LastReq(1).out = "Reserved"

\* The VM value the call of poller c read lists the target disk among its
\* data disks, and the requests ensureDiskAttachedToScannerVM issued in the
\* call.
DiskListed(c) == \E d \in vmSeen[c] : d.ID = DataDisk(AttachLun).ID
AttachReqs(c) == { k \in DOMAIN reqs[c] : reqs[c][k].fn = StepFn("attach") }

\* C36: a call whose VM value lists the target disk issues no VM update in
\* ensureDiskAttachedToScannerVM, only the one Get of the disk; a call that
\* reads the scanner VM once the disk is attached finds the disk listed, so
\* it sends no attach request, and it returns success when its probe reads
\* the disk as Attached.
C36_ListedDiskOnlyProbed ==
    /\ [](\A c \in pollers :
              DiskListed(c)
                  => /\ \A k \in AttachReqs(c) :
                            /\ reqs[c][k].op = "Get"
                            /\ reqs[c][k].kind = "disk"
                     /\ Cardinality(AttachReqs(c)) <= 1
                     /\ scanRet[c] = NilError => Cardinality(AttachReqs(c)) = 1)
    /\ [][\A c \in pollers :
              /\ /\ spc[c] = At("vm", "get")
                 /\ spc'[c] = At("attach", "put")
                 /\ diskState = "Attached"
                 => DiskListed(c)'
              /\ /\ spc[c] = At("attach", "get")
                 /\ spc'[c] # spc[c]
                 /\ DiskListed(c)
                 /\ diskState = "Attached"
                 /\ LastReq(c)'.out \notin AzureErrors
                 => /\ scanRet'[c] = NilError
                    /\ AttachReqs(c)' \cap MutatingReqs(c)' = {}]_vars

\* C36 witness: a call that found the disk listed and attached returned
\* success after the Get of the disk, its only request of the attach step.
C36_Witness ==
    /\ scanRet[1] = NilError
    /\ DiskListed(1)
    /\ diskState = "Attached"
    /\ Cardinality(AttachReqs(1)) = 1
    /\ LastReq(1).op = "Get"
    /\ LastReq(1).out = "Attached"

\* ------------------------------------------------------------------------
\* RunTargetScan: the poll loops to their end
\* ------------------------------------------------------------------------

\* The poll loop calls again after every retryable error and a call takes
\* its steps; Azure takes every begun operation on.
FairSpecScan ==
    /\ SpecScan
    /\ WF_vars(PollerStep(1))
    /\ WF_vars(AzureStep)

FairSpecScan2 ==
    /\ SpecScan2
    /\ \A c \in Callers : WF_vars(PollerStep(c))
    /\ WF_vars(AzureStep)

\* The scanner VM of the job.
ScanVM == scannerVMNameFromJobConfig(jobConfig)

\* The scanning environment is there: snapshot, disk and network interface
\* ready, the scanner VM Succeeded, the disk attached.
EnvironmentReady ==
    /\ \A k \in { "snapshot", "disk", "nic" } : azRes[k] = "ready"
    /\ vms[ScanVM] = ProvisioningStateSucceeded
    /\ diskState = "Attached"

\* What the claims about the end of the poll loops assume away: a call
\* returned an error that is not retryable, or the provisioning of the
\* scanner VM failed.
Failure ==
    \/ \E c \in Callers : scanRet[c].kind \in { "fatal", "error" }
    \/ \E n \in VMNames : vms[n] = "Failed"

\* The call of poller c returns success in this step.
ReturnsSuccess(c) == scanRet'[c] = NilError /\ scanRet[c] # NilError

C23_Converge ==
    /\ [](/\ Cardinality({ n \in VMNames : vms[n] # "absent" }) <= 1
          /\ \A c \in Callers : \A k \in DOMAIN reqs[c] :
                 reqs[c][k].kind = "vm" => reqs[c][k].name = ScanVM)
    /\ <>[](\/ /\ \A c \in Callers : scanRet[c] = NilError
               /\ EnvironmentReady
            \/ Failure)

\* C23 witness: both invocations found the scanner VM missing and both
\* issued its create, and there is one scanner VM.
C23_Witness ==
    /\ \A c \in Callers :
           /\ scanRet[c].kind = "retryable"
           /\ reqs[c] # << >>
           /\ LastReq(c).fn = StepFn("vm")
           /\ LastReq(c).op = "BeginCreateOrUpdate"
           /\ LastReq(c).out = "ok"
    /\ vms[ScanVM] # "absent"

\* ------------------------------------------------------------------------
\* Azure provider: RemoveTargetScan under its poll loop
\* ------------------------------------------------------------------------

VMDeleteEstimateTime == 2

\* RemoveSteps with the target disk deleted before the network interface.
RemoveSteps_DiskFirst == << "vm", "disk", "nic", "blob", "snapshot" >>

\* The ensure-deleted steps of RemoveTargetScan, in order.
RemoveSteps == << "vm", "nic", "disk", "blob", "snapshot" >>

\* The function RemoveTargetScan calls for a step.
RemoveFn(st) ==
    CASE st = "vm" -> "ensureScannerVirtualMachineDeleted"
      [] st = "nic" -> "ensureNetworkInterfaceDeleted"
      [] st = "disk" -> "ensureTargetDiskDeleted"
      [] st = "blob" -> "ensureBlobDeleted"
      [] st = "snapshot" -> "ensureSnapshotDeleted"

\* The wait an ensure-deleted step reports after it issued the delete.
DeleteEstimateTime(st) ==
    IF st = "vm" THEN VMDeleteEstimateTime ELSE EnsureEstimateTime

\* Azure: the state of the resource of a step, and the resources with the
\* resource of step st in state to.
StateOf(st) == IF st = "vm" THEN vms[ScanVM] ELSE azRes[st]
VmsWith(st, to) == IF st = "vm" THEN [vms EXCEPT ![ScanVM] = to] ELSE vms
AzResWith(st, to) == IF st = "vm" THEN azRes ELSE [azRes EXCEPT ![st] = to]

\* Nothing of the job is left.
AllGone ==
    /\ \A k \in ResourceKinds : azRes[k] = "absent"
    /\ \A n \in VMNames : vms[n] = "absent"

\* The position after the step at index k of RemoveSteps returned success:
\* the next step, or the return of success after the last.
AfterDeleted(c, k, rq) ==
    IF k = Len(RemoveSteps)
        THEN Finish(c, NilError, rq)
        ELSE Goto(c, At(RemoveSteps[k + 1], "deleted.get"), rq)

\* A job torn down from any stage: each of its resources is there or not.
InitRemove ==
    /\ ManagerIdle
    /\ TagsIdle
    /\ DBIdle
    /\ jobConfig = 1
    /\ \E st \in { "absent", ProvisioningStateSucceeded } :
           vms = [n \in VMNames |->
                      IF n = scannerVMNameFromJobConfig(1) THEN st ELSE "absent"]
    /\ vmPc = "idle"
    /\ calls = 0
    /\ azLog = << >>
    /\ pollers = { 1 }
    /\ targetInfo = [isVMInfo |-> FALSE, InstanceID |-> << >>]
    /\ sameRegion = TRUE
    /\ azRes \in [ResourceKinds -> { "absent", "ready" }]
    /\ dataDisks = {}
    /\ diskState = "Unattached"
    /\ spc = [c \in Callers |-> Idle]
    /\ vmSeen = [c \in Callers |-> {}]
    /\ reqs = [c \in Callers |-> << >>]
    /\ scanRet = [c \in Callers |-> NoReturn]
    /\ callInfo = NoCallInfo

\* RemoveTargetScan is called, by the poll loop after a retryable error or
\* once more after it returned success: it begins with the scanner VM.
RemoveCalled(c) ==
    /\ c \in pollers
    /\ spc[c] = Idle \/ (spc[c] = Stopped /\ scanRet[c] = NilError)
    /\ callInfo' = [callInfo EXCEPT ![c] =
                        [gone |-> AllGone, repeat |-> scanRet[c] = NilError]]
    /\ Goto(c, At(RemoveSteps[1], "deleted.get"), << >>)
    /\ UNCHANGED << outsideRemove, vms, pollers, targetInfo, sameRegion, azRes,
                    dataDisks, diskState, vmSeen >>

\* An ensure-deleted step calls get: not found is the step's success, a
\* resource found leads to the delete, any other error is returned.
EnsureDeletedGet(c) ==
    /\ c \in pollers
    /\ spc[c].phase = "deleted.get"
    /\ LET st == spc[c].step
           k == CHOOSE j \in 1..Len(RemoveSteps) : RemoveSteps[j] = st
           rq(out) == Append(reqs[c], Req("Get", st, st, RemoveFn(st), {}, out))
       IN  \/ /\ StateOf(st) # "absent"
              /\ Goto(c, At(st, "deleted.delete"), rq(StateOf(st)))
           \/ \E e \in GetErrorsOf(StateOf(st) # "absent") :
                  LET h == handleAzureRequestError(e, "getting")
                  IN  IF h.notFound
                          THEN AfterDeleted(c, k, rq(e))
                          ELSE Finish(c, Wrap(RemoveFn(st), h.err), rq(e))
    /\ UNCHANGED << outsideRemove, vms, pollers, targetInfo, sameRegion, azRes,
                    dataDisks, diskState, vmSeen, callInfo >>

\* An ensure-deleted step issues the delete: acknowledged, the call returns
\* a retryable error; failed, the error is returned.
EnsureDeletedDelete(c) ==
    /\ c \in pollers
    /\ spc[c].phase = "deleted.delete"
    /\ LET st == spc[c].step
           to == IF StateOf(st) = "absent" THEN "absent" ELSE "deleting"
           rq(out) ==
               Append(reqs[c], Req("BeginDelete", st, st, RemoveFn(st), {}, out))
       IN  \/ /\ vms' = VmsWith(st, to)
              /\ azRes' = AzResWith(st, to)
              /\ Finish(c, Wrap(RemoveFn(st),
                                RetryableErrorf(DeleteEstimateTime(st),
                                                "delete issued")),
                        rq("ok"))
           \/ /\ UNCHANGED << vms, azRes >>
              /\ \E e \in GetErrorsOf(StateOf(st) # "absent") :
                     Finish(c, Wrap(RemoveFn(st),
                                    handleAzureRequestError(e, "deleting").err),
                            rq(e))
    /\ UNCHANGED << outsideRemove, pollers, targetInfo, sameRegion, dataDisks,
                    diskState, vmSeen, callInfo >>

\* Azure: a resource that is being deleted is gone.
ResourceDeleted(st) ==
    /\ StateOf(st) = "deleting"
    /\ vms' = VmsWith(st, "absent")
    /\ azRes' = AzResWith(st, "absent")
    /\ UNCHANGED << outsideRemove, pollers, targetInfo, sameRegion, dataDisks,
                    diskState, spc, vmSeen, reqs, scanRet, callInfo >>

NextRemove ==
    \/ \E c \in Callers : RemoveCalled(c)
    \/ \E c \in Callers : EnsureDeletedGet(c)
    \/ \E c \in Callers : EnsureDeletedDelete(c)
    \/ \E st \in ResourceKinds \cup { "vm" } : ResourceDeleted(st)

SpecRemove == InitRemove /\ [][NextRemove]_vars

\* The place of a request in the teardown order.
TeardownRank(r) ==
    CASE r.kind = "vm" -> 1
      [] r.kind = "nic" -> 2
      [] r.kind = "disk" -> 3
      [] r.kind = "blob" -> 4
      [] r.kind = "snapshot" -> 5

\* C24: a call of RemoveTargetScan issues its requests in the order scanner
\* VM, network interface, target disk, snapshot copy blob, snapshot,
\* starting with the VM and skipping none; it goes on to the next resource
\* only after the Get of the one before answered not found, which is that
\* step's success; a delete is issued only for a resource the Get found, it
\* is the last request of the call, and acknowledged it makes the call
\* return a retryable error; success is returned only after all five Gets
\* answered not found; and a call begun when everything was gone issues no
\* delete and, unless a Get fails, returns success.
C24_TeardownInOrder ==
    \A c \in pollers :
        LET rs == reqs[c]
        IN  /\ \A k \in DOMAIN rs :
                   IF k = 1 THEN TeardownRank(rs[k]) = 1 /\ rs[k].op = "Get"
                   ELSE \/ /\ TeardownRank(rs[k]) = TeardownRank(rs[k - 1]) + 1
                           /\ rs[k].op = "Get"
                           /\ rs[k - 1].op = "Get"
                           /\ rs[k - 1].out = "NotFound"
                        \/ /\ TeardownRank(rs[k]) = TeardownRank(rs[k - 1])
                           /\ rs[k].op = "BeginDelete"
                           /\ rs[k - 1].op = "Get"
                           /\ rs[k - 1].out \notin AzureErrors
            /\ \A k \in DOMAIN rs :
                   rs[k].op = "BeginDelete"
                       => /\ k = Len(rs)
                          /\ ~InCall(c)
                          /\ scanRet[c].kind = IF rs[k].out = "ok"
                                                   THEN "retryable" ELSE "fatal"
            /\ scanRet[c] = NilError
                   => /\ Len(rs) = 5
                      /\ \A k \in DOMAIN rs :
                             /\ TeardownRank(rs[k]) = k
                             /\ rs[k].op = "Get"
                             /\ rs[k].out = "NotFound"
            /\ callInfo[c].gone
                   => /\ \A k \in DOMAIN rs : rs[k].op = "Get"
                      /\ /\ CallReturned(c)
                         /\ \A k \in DOMAIN rs : rs[k].out = "NotFound"
                         => scanRet[c] = NilError

\* C24 witness: after a call that returned success, a call begun with
\* everything gone returned success again.
C24_Witness ==
    /\ callInfo[1].repeat
    /\ callInfo[1].gone
    /\ scanRet[1] = NilError
    /\ Len(reqs[1]) = 5

\* A call found the scanner VM gone and issued the delete of the network
\* interface.
C24_WitnessDelete ==
    /\ scanRet[1].kind = "retryable"
    /\ Len(reqs[1]) = 3
    /\ reqs[1][1].out = "NotFound"
    /\ reqs[1][3].op = "BeginDelete"
    /\ reqs[1][3].kind = "nic"

\* ------------------------------------------------------------------------
\* Backend: the scan results table handler under concurrent requests
\* ------------------------------------------------------------------------

\* The calls a behaviour begins, and a revision a request body may carry.
MaxOps == 2
BodyRevision == 7

\* uuid.New().String() of the n-th call (0: of a call before the behaviour
\* begins), and the scan and target ids of the requests.
uuid(n) == << "uuid", n >>
ScanIDs == { << "s", "1" >>, << "s", "2" >> }
TargetIDs == { << "t", "1" >> }

\* The request bodies: with or without an id (the empty one, that of the row
\* the table begins with, that of the first result created), a scan and a
\* target (with an empty or a proper id) and a revision.
Bodies ==
    { TargetScanResult(id, scan, target, revision) :
          id \in { NilString, PointerTo(EmptyString), PointerTo(uuid(0)),
                   PointerTo(uuid(1)) },
          scan \in { NilObj, Obj(EmptyString) } \cup { Obj(x) : x \in ScanIDs },
          target \in { NilObj, Obj(EmptyString) } \cup { Obj(x) : x \in TargetIDs },
          revision \in { Nil, PointerTo(BodyRevision) } }

\* The If-Match parameters: none, the revision of a new result, a later one.
IfMatches == { Nil, PointerTo(1), PointerTo(2) }

\* The requests of clients that send a scan and a target with proper ids,
\* and either no If-Match or that of a new result.
ProperBodies ==
    { b \in Bodies :
          /\ b.Id \in { NilString, PointerTo(uuid(0)) }
          /\ ~b.Scan.isNil /\ b.Scan.Id # EmptyString
          /\ ~b.Target.isNil /\ b.Target.Id # EmptyString }
ProperIfMatches == { Nil, PointerTo(1) }
ClientBodies == IF clients = "all" THEN Bodies ELSE ProperBodies
ClientIfMatches == IF clients = "all" THEN IfMatches ELSE ProperIfMatches

\* The row of a result that CreateScanResult stored before the behaviour
\* begins, and a row written before results carried a revision.
FirstRow ==
    TargetScanResult(PointerTo(uuid(0)), Obj(<< "s", "1" >>), Obj(<< "t", "1" >>),
                     PointerTo(1))
LegacyRow ==
    TargetScanResult(PointerTo(uuid(0)), Obj(<< "s", "1" >>), Obj(<< "t", "1" >>), Nil)

\* checkUniqueness that never finds another result.
checkUniqueness_NeverConflicts(st, scanResult) ==
    IF scanResult.Id.isNil \/ scanResult.Target.isNil \/ scanResult.Scan.isNil
        THEN DBReturn("panic", EmptyTargetScanResult)
        ELSE DBReturn("nil", EmptyTargetScanResult)

\* checkUniqueness on the table st: the filter dereferences scanResult.Id,
\* scanResult.Target and scanResult.Scan (line 299), which panics on a nil
\* one; the first row with another id and the same target and scan ids is
\* returned with a ConflictError.
checkUniqueness(st, scanResult) ==
    IF scanResult.Id.isNil \/ scanResult.Target.isNil \/ scanResult.Scan.isNil
        THEN DBReturn("panic", EmptyTargetScanResult)
        ELSE LET scanResults ==
                     { k \in DOMAIN st :
                           /\ st[k].Id # scanResult.Id
                           /\ st[k].Target.Id = scanResult.Target.Id
                           /\ st[k].Scan.Id = scanResult.Scan.Id }
             IN  IF scanResults # {}
                     THEN DBReturn("ConflictError",
                                   st[CHOOSE k \in scanResults :
                                          \A j \in scanResults : k <= j])
                     ELSE DBReturn("nil", EmptyTargetScanResult)

\* getExistingObjByID: the row whose result has the id, 0 if there is none.
getExistingObjByID(st, objID) ==
    IF \E k \in DOMAIN st : st[k].Id = PointerTo(objID)
        THEN CHOOSE k \in DOMAIN st :
                 /\ st[k].Id = PointerTo(objID)
                 /\ \A j \in DOMAIN st : st[j].Id = PointerTo(objID) => k <= j
        ELSE 0

\* checkRevisionEtag: the error it returns ("nil" for none). The Reason of
\* the error dereferences revision (line 76), which panics on a nil one.
checkRevisionEtag(ifMatch, revision) ==
    IF \/ ~ifMatch.isNil /\ ~revision.isNil /\ ifMatch.v # revision.v
       \/ ~ifMatch.isNil /\ revision.isNil
        THEN IF revision.isNil THEN "panic" ELSE "PreconditionFailedError"
        ELSE "nil"

\* bumpRevision.
bumpRevision(oldrevision) ==
    IF ~oldrevision.isNil THEN PointerTo(oldrevision.v + 1) ELSE PointerTo(1)

\* patchObject: the JSON merge patch of the stored result with the request;
\* a nil field of the request is not part of the patch.
patchObject(original, newobject) ==
    TargetScanResult(
        IF newobject.Id.isNil THEN original.Id ELSE newobject.Id,
        IF newobject.Scan.isNil THEN original.Scan ELSE newobject.Scan,
        IF newobject.Target.isNil THEN original.Target ELSE newobject.Target,
        IF newobject.Revision.isNil THEN original.Revision ELSE newobject.Revision)

\* The call of caller c returns.
DBFinish(c, err, body) ==
    /\ dbRet' = [dbRet EXCEPT ![c] = DBReturn(err, body)]
    /\ dbPc' = [dbPc EXCEPT ![c] = "idle"]

\* The call of caller c goes on at position pos with the locals loc.
DBGoto(c, pos, loc) ==
    /\ dbRet' = [dbRet EXCEPT ![c] = NoDBReturn]
    /\ dbPc' = [dbPc EXCEPT ![c] = pos]
    /\ dbLocal' = [dbLocal EXCEPT ![c] = loc]

\* The table with its rows one of those given, served by the callers cs for
\* the clients cl.
InitDBWith(cs, cl, rows) ==
    /\ ManagerIdle
    /\ EnsureIdle
    /\ TagsIdle
    /\ ScanIdle
    /\ store \in rows
    /\ dbCallers = cs
    /\ clients = cl
    /\ dbPc = [c \in Callers |-> "idle"]
    /\ dbLocal = [c \in Callers |-> NoCall]
    /\ dbRet = [c \in Callers |-> NoDBReturn]
    /\ dbOps = 0

\* A caller may begin a call.
CanBegin(c) ==
    /\ c \in dbCallers
    /\ dbPc[c] = "idle"
    /\ dbOps < MaxOps

\* CreateScanResult, lines 100-146: the checks of the request, the new id,
\* the revision 1 and the uniqueness check.
CreateScanResult(c) ==
    /\ CanBegin(c)
    /\ dbOps' = dbOps + 1
    /\ store' = store
    /\ \E body \in ClientBodies :
           LET loc == Call("CreateScanResult", body, Nil, 0)
               scanResult == [body EXCEPT !.Id = PointerTo(uuid(dbOps + 1)),
                                          !.Revision = PointerTo(1)]
               u == checkUniqueness(store, scanResult)
           IN  IF \/ ~body.Scan.isNil /\ body.Scan.Id = EmptyString
                  \/ ~body.Target.isNil /\ body.Target.Id = EmptyString
                  \/ ~body.Id.isNil
                   THEN /\ DBFinish(c, "BadRequestError", EmptyTargetScanResult)
                        /\ dbLocal' = [dbLocal EXCEPT ![c] = loc]
                   ELSE IF u.err # "nil"
                            THEN /\ DBFinish(c, u.err, u.body)
                                 /\ dbLocal' = [dbLocal EXCEPT ![c] =
                                                    [loc EXCEPT !.scanResult = scanResult]]
                            ELSE DBGoto(c, "create.insert",
                                        [loc EXCEPT !.scanResult = scanResult])
    /\ UNCHANGED << outsideDB, dbCallers, clients >>

\* CreateInsert that checks the uniqueness once more, in one with the insert.
CreateInsert_Locked(c) ==
    /\ c \in dbCallers
    /\ dbPc[c] = "create.insert"
    /\ LET u == checkUniqueness(store, dbLocal[c].scanResult)
       IN  \/ /\ u.err = "nil"
              /\ store' = Append(store, dbLocal[c].scanResult)
              /\ DBFinish(c, "nil", dbLocal[c].scanResult)
           \/ /\ u.err # "nil"
              /\ store' = store
              /\ DBFinish(c, u.err, u.body)
           \/ /\ store' = store
              /\ DBFinish(c, "error", EmptyTargetScanResult)
    /\ UNCHANGED << outsideDB, dbCallers, clients, dbLocal, dbOps >>

\* CreateScanResult, lines 148-169: the insert, which the database may
\* refuse.
CreateInsert(c) ==
    /\ c \in dbCallers
    /\ dbPc[c] = "create.insert"
    /\ \/ /\ store' = Append(store, dbLocal[c].scanResult)
          /\ DBFinish(c, "nil", dbLocal[c].scanResult)
       \/ /\ store' = store
          /\ DBFinish(c, "error", EmptyTargetScanResult)
    /\ UNCHANGED << outsideDB, dbCallers, clients, dbLocal, dbOps >>

\* SaveScanResult, lines 173-200: the checks of the request and the
\* uniqueness check.
SaveScanResult(c) ==
    /\ CanBegin(c)
    /\ dbOps' = dbOps + 1
    /\ store' = store
    /\ \E body \in ClientBodies, ifMatch \in ClientIfMatches :
           LET loc == Call("SaveScanResult", body, ifMatch, 0)
               u == checkUniqueness(store, body)
           IN  /\ dbLocal' = [dbLocal EXCEPT ![c] = loc]
               /\ IF \/ body.Id.isNil
                     \/ body.Id.v = EmptyString
                     \/ ~body.Scan.isNil /\ body.Scan.Id = EmptyString
                     \/ ~body.Target.isNil /\ body.Target.Id = EmptyString
                      THEN DBFinish(c, "BadRequestError", EmptyTargetScanResult)
                      ELSE IF u.err # "nil"
                               THEN DBFinish(c, u.err, u.body)
                               ELSE /\ dbRet' = [dbRet EXCEPT ![c] = NoDBReturn]
                                    /\ dbPc' = [dbPc EXCEPT ![c] = "save.get"]
    /\ UNCHANGED << outsideDB, dbCallers, clients >>

\* SaveScanResult, lines 202-217: the stored result is read, If-Match is
\* checked against its revision, and the revision of the request is set.
SaveGet(c) ==
    /\ c \in dbCallers
    /\ dbPc[c] = "save.get"
    /\ store' = store
    /\ LET loc == dbLocal[c]
           row == getExistingObjByID(store, loc.scanResult.Id.v)
           e == checkRevisionEtag(loc.ifMatch, store[row].Revision)
       IN  IF row = 0
               THEN /\ DBFinish(c, "ErrNotFound", EmptyTargetScanResult)
                    /\ dbLocal' = dbLocal
               ELSE IF e # "nil"
                        THEN /\ DBFinish(c, e, EmptyTargetScanResult)
                             /\ dbLocal' = dbLocal
                        ELSE DBGoto(c, "save.write",
                                    [loc EXCEPT !.row = row,
                                                !.scanResult.Revision =
                                                    bumpRevision(store[row].Revision)])
    /\ UNCHANGED << outsideDB, dbCallers, clients, dbOps >>

\* SaveScanResult, lines 219-239, and UpdateScanResult, lines 289-293: the
\* row is written, which the database may refuse.
SaveWrite(c) ==
    /\ c \in dbCallers
    /\ dbPc[c] \in { "save.write", "update.write" }
    /\ \/ /\ store' = [store EXCEPT ![dbLocal[c].row] = dbLocal[c].scanResult]
          /\ DBFinish(c, "nil", dbLocal[c].scanResult)
       \/ /\ store' = store
          /\ DBFinish(c, "error", EmptyTargetScanResult)
    /\ UNCHANGED << outsideDB, dbCallers, clients, dbLocal, dbOps >>

\* UpdateScanResult, lines 243-277: the check of the id, the read of the
\* stored result, the check of If-Match, the new revision and the patch.
UpdateScanResult(c) ==
    /\ CanBegin(c)
    /\ dbOps' = dbOps + 1
    /\ store' = store
    /\ \E body \in ClientBodies, ifMatch \in ClientIfMatches :
           LET loc == Call("UpdateScanResult", body, ifMatch, 0)
               row == getExistingObjByID(store, body.Id.v)
               e == checkRevisionEtag(ifMatch, store[row].Revision)
               scanResult == [body EXCEPT !.Revision =
                                              bumpRevision(store[row].Revision)]
           IN  IF body.Id.isNil \/ body.Id.v = EmptyString
                   THEN /\ DBFinish(c, "BadRequestError", EmptyTargetScanResult)
                        /\ dbLocal' = [dbLocal EXCEPT ![c] = loc]
                   ELSE IF row = 0
                            THEN /\ DBFinish(c, "ErrNotFound", EmptyTargetScanResult)
                                 /\ dbLocal' = [dbLocal EXCEPT ![c] = loc]
                            ELSE IF e # "nil"
                                     THEN /\ DBFinish(c, e, EmptyTargetScanResult)
                                          /\ dbLocal' = [dbLocal EXCEPT ![c] = loc]
                                     ELSE DBGoto(c, "update.check",
                                                 [loc EXCEPT
                                                      !.row = row,
                                                      !.scanResult =
                                                          patchObject(store[row],
                                                                      scanResult)])
    /\ UNCHANGED << outsideDB, dbCallers, clients >>

\* UpdateScanResult, lines 279-287: the uniqueness check of the patched
\* result.
UpdateCheck(c) ==
    /\ c \in dbCallers
    /\ dbPc[c] = "update.check"
    /\ store' = store
    /\ dbLocal' = dbLocal
    /\ LET u == checkUniqueness(store, dbLocal[c].scanResult)
       IN  IF u.err # "nil"
               THEN DBFinish(c, u.err, u.body)
               ELSE /\ dbRet' = dbRet
                    /\ dbPc' = [dbPc EXCEPT ![c] = "update.write"]
    /\ UNCHANGED << outsideDB, dbCallers, clients, dbOps >>

NextDB ==
    \/ \E c \in Callers : CreateScanResult(c)
    \/ \E c \in Callers : CreateInsert(c)
    \/ \E c \in Callers : SaveScanResult(c)
    \/ \E c \in Callers : SaveGet(c)
    \/ \E c \in Callers : SaveWrite(c)
    \/ \E c \in Callers : UpdateScanResult(c)
    \/ \E c \in Callers : UpdateCheck(c)

\* Requests served one at a time, requests served concurrently, and one
\* request served on a table that holds a row without a revision.
InitDBSeq == InitDBWith({ 1 }, "all", { << >>, << FirstRow >> })
InitDB == InitDBWith(Callers, "proper", { << >>, << FirstRow >> })
InitDBLegacy == InitDBWith({ 1 }, "all", { << LegacyRow >> })

SpecDBSeq == InitDBSeq /\ [][NextDB]_vars
SpecDB == InitDB /\ [][NextDB]_vars
SpecDBLegacy == InitDBLegacy /\ [][NextDB]_vars

\* PostScanResults, lines 48-61: the response to what CreateScanResult
\* returned.
PostScanResults(ret) ==
    IF ret.err = "nil" THEN [status |-> 201, body |-> ret.body]
    ELSE IF ret.err = "ConflictError" THEN [status |-> 409, body |-> ret.body]
    ELSE [status |-> 500, body |-> EmptyTargetScanResult]

\* ------------------------------------------------------------------------
\* The scan results table: properties
\* ------------------------------------------------------------------------

\* Two results are for the same target and scan.
SamePair(a, b) == a.Target.Id = b.Target.Id /\ a.Scan.Id = b.Scan.Id

\* The rows of another result for the target and scan of r.
ConflictingRows(r) ==
    { k \in DOMAIN store : store[k].Id # r.Id /\ SamePair(store[k], r) }

\* Two rows of the table are for the same target and scan.
DuplicatePair ==
    \E j, k \in DOMAIN store : j < k /\ SamePair(store[j], store[k])

\* The last call of caller c has returned (or panicked), and caller c takes
\* the step in which its call returns.
DBReturned(c) == dbRet[c].err # "none"
DBReturns(c) == dbPc[c] # dbPc'[c] /\ dbPc'[c] = "idle" /\ dbRet'[c].err # "none"

\* The request of a call lacks a scan id or a target id.
LacksIds(r) ==
    \/ r.Scan.isNil
    \/ r.Target.isNil
    \/ r.Scan.Id = EmptyString
    \/ r.Target.Id = EmptyString

\* C31: CreateScanResult holds no lock between its uniqueness check and its
\* insert: a call that has passed the check inserts its result whatever the
\* table holds by then, so two calls for the same target and scan that both
\* passed the check both insert (the witness: two rows for one pair).
C31_InsertAfterCheckUnguarded ==
    \A c \in Callers :
        dbPc[c] = "create.insert"
            => ENABLED (/\ CreateInsert(c)
                        /\ store' = Append(store, dbLocal[c].scanResult))

\* C31 witness: two concurrent CreateScanResult calls for the same target
\* and scan both returned success and the table holds both results.
C31_Witness ==
    /\ \A c \in Callers :
           /\ dbLocal[c].op = "CreateScanResult"
           /\ dbRet[c].err = "nil"
    /\ SamePair(dbRet[1].body, dbRet[2].body)
    /\ \E j, k \in DOMAIN store :
           /\ j < k
           /\ store[j] \in { dbRet[1].body, dbRet[2].body }
           /\ store[k] \in { dbRet[1].body, dbRet[2].body }

\* C32: with the calls served one at a time, no two rows are ever for the
\* same target and scan; a call that gets as far as its uniqueness check
\* with a result that another row's result conflicts with returns a
\* ConflictError (a 409 for PostScanResults) with the first such row's
\* result; a ConflictError is returned for no other reason; and a call that
\* returns an error leaves the table as it was.
C32_UniquePairSequential ==
    /\ [](/\ ~DuplicatePair
          /\ \A c \in dbCallers :
                 LET loc == dbLocal[c]
                     r == loc.scanResult
                     reached ==
                         CASE loc.op = "CreateScanResult" ->
                                  dbRet[c].err # "BadRequestError"
                           [] loc.op = "SaveScanResult" ->
                                  dbRet[c].err # "BadRequestError"
                           [] loc.op = "UpdateScanResult" -> loc.row # 0
                           [] OTHER -> FALSE
                 IN  DBReturned(c)
                         => /\ reached /\ ~LacksIds(r) /\ ConflictingRows(r) # {}
                                => /\ dbRet[c].err = "ConflictError"
                                   /\ \E k \in ConflictingRows(r) :
                                          dbRet[c].body = store[k]
                                   /\ loc.op = "CreateScanResult"
                                          => /\ PostScanResults(dbRet[c]).status = 409
                                             /\ PostScanResults(dbRet[c]).body
                                                    = dbRet[c].body
                            /\ dbRet[c].err = "ConflictError"
                                   => reached /\ ConflictingRows(r) # {})
    /\ [][\A c \in dbCallers :
              DBReturns(c) /\ dbRet'[c].err # "nil" => store' = store]_vars

\* C32 witness: an UpdateScanResult that would have moved a result to the
\* scan of another row's result returned a ConflictError.
C32_Witness ==
    /\ dbLocal[1].op = "UpdateScanResult"
    /\ dbRet[1].err = "ConflictError"
    /\ Len(store) = 2
    /\ ~DuplicatePair

\* C37: a SaveScanResult or UpdateScanResult that carries If-Match writes
\* only over the revision it carries, and every successful write takes the
\* stored revision up by exactly one; so of two calls with the same
\* If-Match at most one succeeds.
C37_NoLostUpdate ==
    [][\A c \in dbCallers :
           /\ dbPc[c] \in { "save.write", "update.write" }
           /\ DBReturns(c)
           /\ dbRet'[c].err = "nil"
           => /\ ~dbLocal[c].ifMatch.isNil
                  => store[dbLocal[c].row].Revision = dbLocal[c].ifMatch
              /\ store'[dbLocal[c].row].Revision.v
                     = store[dbLocal[c].row].Revision.v + 1]_vars

\* C38: a SaveScanResult or UpdateScanResult that gets as far as
\* checkRevisionEtag returns a PreconditionFailedError if it carries an
\* If-Match and the stored revision differs from it or is absent, and gets
\* past the check if it carries none or the stored revision; a call that
\* returns an error leaves the table as it was.
C38_EtagChecked ==
    /\ [](\A c \in dbCallers :
              LET loc == dbLocal[c]
                  row == getExistingObjByID(store, loc.scanResult.Id.v)
                  reached ==
                      /\ loc.op \in { "SaveScanResult", "UpdateScanResult" }
                      /\ dbRet[c].err \notin { "BadRequestError", "ConflictError",
                                              "ErrNotFound" }
                      /\ ~loc.scanResult.Id.isNil
                      /\ loc.op = "SaveScanResult" => ~LacksIds(loc.scanResult)
                      /\ row # 0
                  failed == loc.row = 0
              IN  DBReturned(c) /\ reached
                      => IF failed
                             THEN /\ ~loc.ifMatch.isNil
                                  /\ store[row].Revision # loc.ifMatch
                                  /\ dbRet[c].err = "PreconditionFailedError"
                             ELSE dbRet[c].err \in { "nil", "error", "ConflictError" })
    /\ [][\A c \in dbCallers :
              DBReturns(c) /\ dbRet'[c].err \in { "PreconditionFailedError", "panic" }
                  => store' = store]_vars

\* C39: the revision of a result is 1 when CreateScanResult stores it and
\* goes up by exactly 1 with every successful SaveScanResult and
\* UpdateScanResult, whatever revision the request carries; it never goes
\* down; and a call that returns an error changes no row.
C39_RevisionCounts ==
    [][/\ \A c \in dbCallers :
              /\ DBReturns(c) /\ dbRet'[c].err = "nil"
                     => IF dbLocal[c].op = "CreateScanResult"
                            THEN /\ Len(store') = Len(store) + 1
                                 /\ store'[Len(store')].Revision = PointerTo(1)
                            ELSE store'[dbLocal[c].row].Revision.v
                                     = store[dbLocal[c].row].Revision.v + 1
              /\ DBReturns(c) /\ dbRet'[c].err # "nil" => store' = store
       /\ \A k \in DOMAIN store :
              /\ k \in DOMAIN store'
              /\ store'[k].Revision.v >= store[k].Revision.v]_vars

\* C40: a CreateScanResult whose request lacks a scan id or a target id
\* (the id empty, or the scan or target absent) returns a BadRequestError,
\* and a call that ends so changes no row.
C40_MissingIdsRejected ==
    /\ [](\A c \in dbCallers :
              /\ DBReturned(c)
              /\ dbLocal[c].op = "CreateScanResult"
              /\ LacksIds(dbLocal[c].scanResult)
              => dbRet[c].err = "BadRequestError")
    /\ [][\A c \in dbCallers :
              /\ DBReturns(c)
              /\ dbRet'[c].err \in { "BadRequestError", "panic" }
              => store' = store]_vars

====
